---- MODULE Spec2Model ----
(***************************************************************************)
(* A model of the macbinary crate: format detection (detect), container   *)
(* decoding (parse, Header::read, MacBinary::read_dep), the bounded        *)
(* cursor they are built on (ReadScope, ReadCtxt, ReadArray), the 128-byte *)
(* round-up helpers, and resource forks (ResourceFork and its iterators).  *)
(*                                                                         *)
(* Byte buffers are sequences over 0..255; the byte at Rust offset k is    *)
(* element k+1 of the sequence.  A u32 is kept as two 16-bit limbs         *)
(* [hi, lo] so that the whole u32 range, up to 0xFFFFFFFF, stays exact.    *)
(***************************************************************************)
EXTENDS Integers, Sequences, FiniteSets, TLC

VARIABLES data, version, file, orig, rnd, target, call, fork, iter, cursor, arr

vars == <<data, version, file, orig, rnd, target, call, fork, iter, cursor, arr>>

\* ------------------------------------------------------------------------
\* Integer widths

Pow2(n) == 2 ^ n

U8_LIMIT == Pow2(8)

U16_LIMIT == Pow2(16)

\* u16::MAX
U16_MAX == U16_LIMIT - 1

\* A u32 value as two 16-bit limbs.
U32(h, l) == [hi |-> h, lo |-> l]

\* u32::MAX
U32_MAX == U32(U16_MAX, U16_MAX)

U32Leq(a, b) == a.hi < b.hi \/ (a.hi = b.hi /\ a.lo <= b.lo)

\* u32::from_be_bytes
U32FromBe(b0, b1, b2, b3) == U32(b0 * U8_LIMIT + b1, b2 * U8_LIMIT + b3)

\* u16::from_be_bytes
U16FromBe(b0, b1) == b0 * U8_LIMIT + b1

\* The largest length the model's integers hold; longer than any buffer of
\* the model.
USIZE_HUGE == Pow2(30)

\* usize::num_from(u32): exact below USIZE_HUGE.  A larger length is kept as
\* USIZE_HUGE: every buffer of the model is shorter than that, so each
\* comparison of the length with a buffer length has the outcome the exact
\* value has.
num_from(v) ==
    IF v.hi >= USIZE_HUGE \div U16_LIMIT THEN USIZE_HUGE ELSE v.hi * U16_LIMIT + v.lo

\* usize.  The model keeps the values near both ends of the usize range,
\* whatever the pointer width w: a non-negative integer k is the usize k and
\* a negative integer -k is the usize 2^w - k, so that usize::MAX is -1.
USIZE_MAX == -1

\* a < b on usize
UsizeLt(a, b) == IF (a < 0) = (b < 0) THEN a < b ELSE b < 0

\* a <= b on usize
UsizeLeq(a, b) == a = b \/ UsizeLt(a, b)

\* Whether a + b on usize passes usize::MAX.  Where it does, a build with
\* overflow checks panics and a build without them goes on with the wrapped
\* sum, which the model's a + b stands for.
UsizeAddOverflows(a, b) == (a < 0 /\ b < 0) \/ ((a < 0) # (b < 0) /\ a + b >= 0)

\* The pointer widths the crate builds for (binary.rs: num_from does not
\* compile for others).
PointerWidths == {32, 64}

\* a * size on usize, for a size of 1 to 16 bytes and a pointer width.  A
\* product from USIZE_HUGE on that fits the usize is kept as USIZE_HUGE, as
\* num_from keeps a length.  Below 2^31 a count overflows only a 32-bit
\* usize, and the wrapped product is the low 32 bits; a count at the top of
\* the range overflows every usize.
UsizeMul(a, size, width) ==
    IF a < 0 THEN (IF size = 1 THEN [tag |-> "Ok", val |-> a]
                   ELSE [tag |-> "Overflowed", val |-> a * size])
    ELSE IF a <= (USIZE_HUGE - 1) \div size THEN [tag |-> "Ok", val |-> a * size]
    ELSE IF width = 64 THEN [tag |-> "Ok", val |-> USIZE_HUGE]
    ELSE LET low == (a % U16_LIMIT) * size
             hi == (a \div U16_LIMIT) * size + low \div U16_LIMIT
         IN  IF hi < U16_LIMIT
             THEN [tag |-> "Ok", val |-> num_from(U32(hi, low % U16_LIMIT))]
             ELSE [tag |-> "Overflowed", val |-> num_from(U32(hi % U16_LIMIT, low % U16_LIMIT))]

\* ------------------------------------------------------------------------
\* CRC-16/XMODEM (crc crate, CRC_16_XMODEM: width 16, poly 0x1021, init 0,
\* no reflection, xorout 0)

RECURSIVE XorBits(_, _)
XorBits(a, b) ==
    IF a = 0 THEN b
    ELSE IF b = 0 THEN a
    ELSE 2 * XorBits(a \div 2, b \div 2) + ((a + b) % 2)

\* Byte-wide exclusive or, tabulated.
XorTable == [a \in 0 .. U8_LIMIT - 1 |-> [b \in 0 .. U8_LIMIT - 1 |-> XorBits(a, b)]]

Xor8(a, b) == XorTable[a][b]

Xor16(a, b) ==
    Xor8(a \div U8_LIMIT, b \div U8_LIMIT) * U8_LIMIT + Xor8(a % U8_LIMIT, b % U8_LIMIT)

\* The generator polynomial x^16 + x^12 + x^5 + 1 without its top bit: 0x1021.
CRC_POLY == Pow2(12) + Pow2(5) + 1

\* One bit of the shift register: shift left, and reduce when a bit falls out.
CrcShift(c) ==
    IF c >= U16_LIMIT \div 2
    THEN XorBits((2 * c) % U16_LIMIT, CRC_POLY)
    ELSE 2 * c

RECURSIVE CrcShiftN(_, _)
CrcShiftN(c, n) == IF n = 0 THEN c ELSE CrcShiftN(CrcShift(c), n - 1)

\* The crate's byte-wise lookup table.
CrcTable == [i \in 0 .. U8_LIMIT - 1 |-> CrcShiftN(i * U8_LIMIT, 8)]

CrcUpdate(c, byte) ==
    Xor16((c % U8_LIMIT) * U8_LIMIT, CrcTable[Xor8(c \div U8_LIMIT, byte)])

\* The register after bytes[lo..hi], starting from c.  The range is halved so
\* that the evaluation stays shallow; the bytes are consumed in order.
RECURSIVE CrcRange(_, _, _, _)
CrcRange(c, bytes, lo, hi) ==
    IF lo > hi THEN c
    ELSE IF lo = hi THEN CrcUpdate(c, bytes[lo])
    ELSE LET mid == (lo + hi) \div 2
             left == CrcRange(c, bytes, lo, mid)
         IN  IF left >= 0 THEN CrcRange(left, bytes, mid + 1, hi) ELSE left

\* A faulty variant of calc_crc: the last byte is left out.
calc_crc_short(bytes) == CrcRange(0, bytes, 1, Len(bytes) - 1)

calc_crc(bytes) == CrcRange(0, bytes, 1, Len(bytes))

\* ------------------------------------------------------------------------
\* Results and errors (error.rs: ParseError; ReadEof converts to BadEof)

Ok(v) == [tag |-> "Ok", val |-> v]

Err(e) == [tag |-> "Err", err |-> e]

\* The outcome of a cursor read: the value and the advanced cursor, or the
\* error and the cursor as it was.
ReadOk(v, c) == [tag |-> "Ok", val |-> v, ctxt |-> c]

ReadErr(e, c) == [tag |-> "Err", err |-> e, ctxt |-> c]

\* The outcome of a step whose usize addition overflowed: v is the result a
\* build without overflow checks goes on with; a build with overflow checks
\* panics at the addition.
Overflowed(v) == [tag |-> "Overflowed", val |-> v]

\* What a build makes of an outcome: checks is whether it has overflow
\* checks (debug_assertions / overflow-checks).
Built(r, checks) ==
    IF r.tag = "Overflowed" THEN (IF checks THEN [tag |-> "Panic"] ELSE Ok(r.val)) ELSE r

\* let name = value; rest: the value is computed once, where the let stands,
\* and rest goes on with it.
With(value, rest(_)) == rest(value)

\* ------------------------------------------------------------------------
\* ReadScope (binary/read.rs)

ReadScope_new(bytes) == [base |-> 0, data |-> bytes]

\* slice.get(offset..).unwrap_or(&[])
GetFrom(bytes, offset) ==
    IF UsizeLeq(offset, Len(bytes)) THEN SubSeq(bytes, offset + 1, Len(bytes)) ELSE <<>>

\* The scope ReadScope::offset returns where it returns one.
ReadScope_offset(scope, offset) ==
    [base |-> scope.base + offset, data |-> GetFrom(scope.data, offset)]

\* ReadScope::offset as a build with or without overflow checks runs it:
\* self.base + offset is a plain addition.
ReadScope_offset_built(scope, offset, checks) ==
    Built(IF UsizeAddOverflows(scope.base, offset)
          THEN Overflowed(ReadScope_offset(scope, offset))
          ELSE Ok(ReadScope_offset(scope, offset)),
          checks)

\* A faulty variant of offset_length: a length past the end is cut down to
\* the bytes there are.
offset_length_clamped(scope, offset, length) ==
    IF UsizeLt(offset, Len(scope.data)) \/ length = 0
    THEN LET rest == GetFrom(scope.data, offset)
         IN  Ok([base |-> scope.base + offset,
                 data |-> SubSeq(rest, 1, IF UsizeLeq(length, Len(rest)) THEN length
                                          ELSE Len(rest))])
    ELSE Err("BadOffset")

\* A faulty variant of offset_length: every refusal is BadEof.
offset_length_eof_only(scope, offset, length) ==
    IF UsizeLt(offset, Len(scope.data)) \/ length = 0
    THEN LET rest == GetFrom(scope.data, offset)
         IN  IF UsizeLeq(length, Len(rest))
             THEN Ok([base |-> scope.base + offset, data |-> SubSeq(rest, 1, length)])
             ELSE Err("BadEof")
    ELSE Err("BadEof")

offset_length(scope, offset, length) ==
    IF UsizeLt(offset, Len(scope.data)) \/ length = 0
    THEN LET rest == GetFrom(scope.data, offset)
         IN  IF UsizeLeq(length, Len(rest))
             THEN LET sub == [base |-> scope.base + offset, data |-> SubSeq(rest, 1, length)]
                  IN  IF UsizeAddOverflows(scope.base, offset) THEN Overflowed(sub)
                      ELSE Ok(sub)
             ELSE Err("BadEof")
    ELSE Err("BadOffset")

\* ------------------------------------------------------------------------
\* ReadCtxt (binary/read.rs)

ReadCtxt_new(scope) == [scope |-> scope, offset |-> 0]

ReadScope_ctxt(scope) == ReadCtxt_new(scope)

ReadCtxt_scope(ctxt) == ReadScope_offset(ctxt.scope, ctxt.offset)

check(cond) == IF cond THEN Ok(TRUE) ELSE Err("BadValue")

\* A faulty variant of check_avail: wrapping_add for checked_add.
check_avail_wrapping(ctxt, length) == UsizeLeq(ctxt.offset + length, Len(ctxt.scope.data))

\* self.offset.checked_add(length) is Some(endpos) and endpos <= the length
\* of the scope.
check_avail(ctxt, length) ==
    /\ ~UsizeAddOverflows(ctxt.offset, length)
    /\ UsizeLeq(ctxt.offset + length, Len(ctxt.scope.data))

\* The byte at Rust index i of the cursor's scope.
ByteAt(ctxt, i) == ctxt.scope.data[i + 1]

Advance(ctxt, n) == [ctxt EXCEPT !.offset = @ + n]

read_unchecked_u8(ctxt) == ReadOk(ByteAt(ctxt, ctxt.offset), Advance(ctxt, 1))

read_unchecked_u16be(ctxt) ==
    ReadOk(ByteAt(ctxt, ctxt.offset) * U8_LIMIT + ByteAt(ctxt, ctxt.offset + 1),
           Advance(ctxt, 2))

read_unchecked_u32be(ctxt) ==
    ReadOk(U32FromBe(ByteAt(ctxt, ctxt.offset), ByteAt(ctxt, ctxt.offset + 1),
                     ByteAt(ctxt, ctxt.offset + 2), ByteAt(ctxt, ctxt.offset + 3)),
           Advance(ctxt, 4))

\* as i8
AsI8(v) == IF v >= U8_LIMIT \div 2 THEN v - U8_LIMIT ELSE v

\* as i32: the signed value of a u32
AsI32(v) == (IF v.hi >= U16_LIMIT \div 2 THEN v.hi - U16_LIMIT ELSE v.hi) * U16_LIMIT + v.lo

\* A u64 value as two u32 halves: (hi << 32) | lo.
U64(h, l) == [hi |-> h, lo |-> l]

\* as i64: the halves of an i64, the high one signed
AsI64(v) == [hi |-> AsI32(v.hi), lo |-> v.lo]

read_unchecked_i8(ctxt) ==
    With(read_unchecked_u8(ctxt), LAMBDA r : ReadOk(AsI8(r.val), r.ctxt))

read_unchecked_i32be(ctxt) ==
    With(read_unchecked_u32be(ctxt), LAMBDA r : ReadOk(AsI32(r.val), r.ctxt))

read_unchecked_u64be(ctxt) ==
    With(read_unchecked_u32be(ctxt), LAMBDA hi :
    With(read_unchecked_u32be(hi.ctxt), LAMBDA lo :
        ReadOk(U64(hi.val, lo.val), lo.ctxt)))

read_unchecked_i64be(ctxt) ==
    With(read_unchecked_u64be(ctxt), LAMBDA r : ReadOk(AsI64(r.val), r.ctxt))

read_u8(ctxt) ==
    IF check_avail(ctxt, 1) THEN read_unchecked_u8(ctxt) ELSE ReadErr("BadEof", ctxt)

read_u16be(ctxt) ==
    IF check_avail(ctxt, 2) THEN read_unchecked_u16be(ctxt) ELSE ReadErr("BadEof", ctxt)

read_u32be(ctxt) ==
    IF check_avail(ctxt, 4) THEN read_unchecked_u32be(ctxt) ELSE ReadErr("BadEof", ctxt)

read_i8(ctxt) ==
    IF check_avail(ctxt, 1) THEN read_unchecked_i8(ctxt) ELSE ReadErr("BadEof", ctxt)

read_i32be(ctxt) ==
    IF check_avail(ctxt, 4) THEN read_unchecked_i32be(ctxt) ELSE ReadErr("BadEof", ctxt)

read_u64be(ctxt) ==
    IF check_avail(ctxt, 8) THEN read_unchecked_u64be(ctxt) ELSE ReadErr("BadEof", ctxt)

read_i64be(ctxt) ==
    IF check_avail(ctxt, 8) THEN read_unchecked_i64be(ctxt) ELSE ReadErr("BadEof", ctxt)

\* ctxt.read::<FourCC>(): ReadFrom for FourCC reads a U32Be and wraps it.
read_FourCC(ctxt) ==
    IF check_avail(ctxt, 4) THEN read_unchecked_u32be(ctxt) ELSE ReadErr("BadEof", ctxt)

read_scope(ctxt, length) ==
    LET r == offset_length(ctxt.scope, ctxt.offset, length)
    IN  IF r.tag = "Ok" THEN ReadOk(r.val, Advance(ctxt, length))
        ELSE IF r.tag = "Overflowed"
        THEN [tag |-> "Overflowed", val |-> r.val, ctxt |-> Advance(ctxt, length)]
        ELSE ReadErr("BadEof", ctxt)

\* The slice read_slice returns is kept with its place in the buffer: a
\* borrowed slice is that place and those bytes.
read_slice(ctxt, length) == read_scope(ctxt, length)

\* ------------------------------------------------------------------------
\* lib.rs: versions, detect

\* enum Version { I = 1, II = 2, III = 3 }: the discriminant orders them.
VersionRank(v) == CASE v = "I" -> 1 [] v = "II" -> 2 [] v = "III" -> 3

\* u32::from_be_bytes(*b"mBIN")
MBIN_SIG == U32FromBe(109, 66, 73, 78)

\* The bytes at Rust offsets from .. to-1 of a buffer.
Slice(bytes, from, to) == SubSeq(bytes, from + 1, to)

\* Whether every byte at Rust offsets from ..= to is zero.
AllZero(bytes, from, to) == \A k \in from .. to : bytes[k + 1] = 0

\* data_fork_len <= 0x007F_FFFF
FORK_LEN_MAX == U32(127, U16_MAX)

\* A faulty variant of LooksLikeHeader: the first byte is not looked at.
LooksLikeHeader_len_only(bytes) == Len(bytes) >= 128

\* (data.len() >= 128 && data[0] == 0)
LooksLikeHeader(bytes) == Len(bytes) >= 128 /\ bytes[1] = 0

\* A faulty variant of HasSignature: the signature is looked for one byte
\* early, at offsets 101..105.
HasSignature_one_early(bytes) ==
    LET sig == read_FourCC(ReadScope_ctxt(ReadScope_new(Slice(bytes, 101, 105))))
    IN  sig.tag = "Ok" /\ sig.val = MBIN_SIG

\* ReadScope::new(&data[102..][..4]).read::<FourCC>() == Ok(FourCC(MBIN_SIG))
HasSignature(bytes) ==
    LET sig == read_FourCC(ReadScope_ctxt(ReadScope_new(Slice(bytes, 102, 106))))
    IN  sig.tag = "Ok" /\ sig.val = MBIN_SIG

\* A faulty variant of macbinary1: the filename length is taken from offset 1,
\* where Header::read takes it from.
macbinary1_len_at_1(bytes) ==
    LET data_fork_len == U32FromBe(bytes[83 + 1], bytes[84 + 1], bytes[85 + 1], bytes[86 + 1])
        rsrc_fork_len == U32FromBe(bytes[87 + 1], bytes[88 + 1], bytes[89 + 1], bytes[90 + 1])
    IN  /\ AllZero(bytes, 101, 125)
        /\ bytes[1 + 1] \in 1 .. 63
        /\ U32Leq(data_fork_len, FORK_LEN_MAX)
        /\ U32Leq(rsrc_fork_len, FORK_LEN_MAX)

macbinary1(bytes) ==
    LET data_fork_len == U32FromBe(bytes[83 + 1], bytes[84 + 1], bytes[85 + 1], bytes[86 + 1])
        rsrc_fork_len == U32FromBe(bytes[87 + 1], bytes[88 + 1], bytes[89 + 1], bytes[90 + 1])
    IN  /\ AllZero(bytes, 101, 125)
        /\ bytes[2 + 1] \in 1 .. 63
        /\ U32Leq(data_fork_len, FORK_LEN_MAX)
        /\ U32Leq(rsrc_fork_len, FORK_LEN_MAX)

detect(bytes) ==
    IF ~LooksLikeHeader(bytes) THEN "None"
    ELSE IF HasSignature(bytes) THEN "III"
    ELSE IF bytes[74 + 1] # 0 \/ bytes[82 + 1] # 0 THEN "None"
    ELSE LET crc == U16FromBe(bytes[124 + 1], bytes[125 + 1])
         IN  IF crc = calc_crc(Slice(bytes, 0, 124)) THEN "II"
             ELSE IF macbinary1(bytes) THEN "I"
             ELSE "None"

\* ------------------------------------------------------------------------
\* lib.rs: Header::read

\* The reads of Header::read in order: the field, how it is read, and for a
\* slice its length.
HeaderLayout ==
    << [name |-> "old_version", kind |-> "u8", size |-> 1],
       [name |-> "filename_len", kind |-> "u8", size |-> 1],
       [name |-> "filename_data", kind |-> "slice", size |-> 63],
       [name |-> "file_type", kind |-> "FourCC", size |-> 4],
       [name |-> "file_creator", kind |-> "FourCC", size |-> 4],
       [name |-> "finder_flags", kind |-> "u8", size |-> 1],
       [name |-> "zero_fill_1", kind |-> "u8", size |-> 1],
       [name |-> "vpos", kind |-> "u16be", size |-> 2],
       [name |-> "hpos", kind |-> "u16be", size |-> 2],
       [name |-> "window_or_folder_id", kind |-> "u16be", size |-> 2],
       [name |-> "protected", kind |-> "u8", size |-> 1],
       [name |-> "zero_fill_2", kind |-> "u8", size |-> 1],
       [name |-> "data_fork_len", kind |-> "u32be", size |-> 4],
       [name |-> "rsrc_fork_len", kind |-> "u32be", size |-> 4],
       [name |-> "created", kind |-> "u32be", size |-> 4],
       [name |-> "modified", kind |-> "u32be", size |-> 4],
       [name |-> "comment_len", kind |-> "u16be", size |-> 2],
       [name |-> "finder_flags2", kind |-> "u8", size |-> 1],
       [name |-> "signature", kind |-> "FourCC", size |-> 4],
       [name |-> "script", kind |-> "u8", size |-> 1],
       [name |-> "extended_finder_flags", kind |-> "u8", size |-> 1],
       [name |-> "unused", kind |-> "slice", size |-> 8],
       [name |-> "total_len", kind |-> "u32be", size |-> 4],
       [name |-> "secondary_header_len", kind |-> "u16be", size |-> 2],
       [name |-> "version", kind |-> "u8", size |-> 1],
       [name |-> "min_version", kind |-> "u8", size |-> 1],
       [name |-> "crc", kind |-> "u16be", size |-> 2],
       [name |-> "reserved", kind |-> "u16be", size |-> 2] >>

\* One read of Header::read.
ReadField(ctxt, f) ==
    CASE f.kind = "u8" -> read_u8(ctxt)
      [] f.kind = "u16be" -> read_u16be(ctxt)
      [] f.kind = "u32be" -> read_u32be(ctxt)
      [] f.kind = "FourCC" -> read_FourCC(ctxt)
      [] f.kind = "slice" -> read_slice(ctxt, f.size)

\* A faulty variant of FieldCheck: the 1..=63 of detect's version I test.
FieldCheck_upto_63(f, v) ==
    IF f.name = "filename_len" THEN check(v \in 1 .. 63) ELSE Ok(TRUE)

\* ctxt.check((1..=31).contains(&filename_len)), made right after the length
\* is read; every other field is unconstrained.
FieldCheck(f, v) ==
    IF f.name = "filename_len" THEN check(v \in 1 .. 31) ELSE Ok(TRUE)

\* The reads from the i-th on, each ending Header::read at its first error
\* (the ? operator); got maps the fields read so far to their values.
RECURSIVE ReadFields(_, _, _)
ReadFields(ctxt, i, got) ==
    IF i > Len(HeaderLayout) THEN ReadOk(got, ctxt)
    ELSE LET f == HeaderLayout[i]
             r == ReadField(ctxt, f)
         IN  IF r.tag = "Err" THEN ReadErr(r.err, r.ctxt)
             ELSE LET c == FieldCheck(f, r.val)
                  IN  IF c.tag = "Err" THEN ReadErr(c.err, r.ctxt)
                      ELSE ReadFields(r.ctxt, i + 1, got @@ (f.name :> r.val))

Header_read(ctxt) ==
    With(ReadFields(ctxt, 1, <<>>), LAMBDA r :
        IF r.tag = "Err" THEN r
        ELSE With(r.val, LAMBDA g :
                 ReadOk([filename |->
                             [base |-> g["filename_data"].base,
                              data |-> SubSeq(g["filename_data"].data, 1, g["filename_len"])],
                         file_type |-> g["file_type"],
                         file_creator |-> g["file_creator"],
                         finder_flags |-> g["finder_flags"],
                         vpos |-> g["vpos"],
                         hpos |-> g["hpos"],
                         window_or_folder_id |-> g["window_or_folder_id"],
                         protected |-> g["protected"] # 0,
                         data_fork_len |-> g["data_fork_len"],
                         rsrc_fork_len |-> g["rsrc_fork_len"],
                         created |-> g["created"],
                         modified |-> g["modified"],
                         comment_len |-> g["comment_len"],
                         finder_flags2 |-> g["finder_flags2"],
                         signature |-> g["signature"],
                         script |-> g["script"],
                         extended_finder_flags |-> g["extended_finder_flags"],
                         secondary_header_len |-> g["secondary_header_len"],
                         version |-> g["version"],
                         min_version |-> g["min_version"],
                         crc |-> g["crc"]],
                        r.ctxt)))

\* ------------------------------------------------------------------------
\* lib.rs: rounding up to a multiple of 128

\* A faulty variant of next_u16_multiple_of_128: wrapping_add for checked_add.
next_u16_wrapping(value) ==
    LET rem == value % 128
    IN  IF rem = 0 THEN Ok(value) ELSE Ok((value + (128 - rem)) % U16_LIMIT)

next_u16_multiple_of_128(value) ==
    LET rem == value % 128
    IN  IF rem = 0 THEN Ok(value)
        ELSE IF value + (128 - rem) <= U16_MAX THEN Ok(value + (128 - rem))
        ELSE Err("Overflow")

\* u32::checked_add of a small addend, on limbs: None when the sum passes
\* u32::MAX.
U32CheckedAdd(v, k) ==
    LET lo == v.lo + k
        hi == v.hi + lo \div U16_LIMIT
    IN  IF hi > U16_MAX THEN Err("Overflow") ELSE Ok(U32(hi, lo % U16_LIMIT))

\* a - b for u32 values with b <= a < b + 2^16
U32Sub(a, b) == (a.hi - b.hi) * U16_LIMIT + (a.lo - b.lo)

\* A faulty variant of next_u32_multiple_of_128: wrapping_add for checked_add.
next_u32_wrapping(value) ==
    LET rem == value.lo % 128
        lo == value.lo + (128 - rem)
        hi == value.hi + lo \div U16_LIMIT
    IN  IF rem = 0 THEN Ok(value) ELSE Ok(U32(hi % U16_LIMIT, lo % U16_LIMIT))

next_u32_multiple_of_128(value) ==
    LET rem == value.lo % 128
    IN  IF rem = 0 THEN Ok(value) ELSE U32CheckedAdd(value, 128 - rem)

\* ------------------------------------------------------------------------
\* lib.rs: MacBinary::read_dep, parse

\* A faulty variant of ReadForks: the padding after the data fork is not
\* skipped.
ReadForks_no_padding(ctxt, ver, header) ==
    With(read_slice(ctxt, num_from(header.data_fork_len)), LAMBDA df :
        IF df.tag = "Err" THEN Err(df.err)
        ELSE With(read_slice(df.ctxt, num_from(header.rsrc_fork_len)), LAMBDA rf :
                 IF rf.tag = "Err" THEN Err(rf.err)
                 ELSE Ok([version |-> ver,
                          header |-> header,
                          data_fork |-> df.val,
                          rsrc_fork |-> rf.val])))

\* The tail of read_dep, from the data fork on.
ReadForks(ctxt, ver, header) ==
    With(read_slice(ctxt, num_from(header.data_fork_len)), LAMBDA df :
        IF df.tag = "Err" THEN Err(df.err)
        ELSE With(next_u32_multiple_of_128(header.data_fork_len), LAMBDA up :
        IF up.tag = "Err" THEN Err(up.err)
        ELSE With(read_slice(df.ctxt, U32Sub(up.val, header.data_fork_len)), LAMBDA pd :
        IF pd.tag = "Err" THEN Err(pd.err)
        ELSE With(read_slice(pd.ctxt, num_from(header.rsrc_fork_len)), LAMBDA rf :
        IF rf.tag = "Err" THEN Err(rf.err)
        ELSE Ok([version |-> ver,
                 header |-> header,
                 data_fork |-> df.val,
                 rsrc_fork |-> rf.val])))))

\* A faulty variant of CrcChecked: version == Version::II.
CrcChecked_only_II(ver) == VersionRank(ver) = VersionRank("II")

\* A faulty variant of CrcChecked: the CRC is compared for every version.
CrcChecked_always(ver) == VersionRank(ver) >= VersionRank("I")

\* version >= Version::II
CrcChecked(ver) == VersionRank(ver) >= VersionRank("II")

MacBinary_read_dep(ctxt, ver) ==
    With(ReadCtxt_scope(ctxt).data, LAMBDA scoped :
        IF Len(scoped) < 124 THEN Err("BadEof")
        ELSE With(SubSeq(scoped, 1, 124), LAMBDA crc_data :
             With(Header_read(ctxt), LAMBDA h :
        IF h.tag = "Err" THEN Err(h.err)
        ELSE IF CrcChecked(ver) /\ calc_crc(crc_data) # h.val.crc
        THEN Err("CrcMismatch")
        ELSE With(next_u16_multiple_of_128(h.val.secondary_header_len), LAMBDA sh :
        IF sh.tag = "Err" THEN Err(sh.err)
        ELSE With(read_slice(h.ctxt, sh.val), LAMBDA sk :
        IF sk.tag = "Err" THEN Err(sk.err)
        ELSE ReadForks(sk.ctxt, ver, h.val))))))

\* A faulty variant of parse: a version without a checked CRC is refused.
parse_refusing_I(bytes) ==
    LET ver == detect(bytes)
    IN  IF ver = "None" \/ ver = "I" THEN Err("BadVersion")
        ELSE MacBinary_read_dep(ReadScope_ctxt(ReadScope_new(bytes)), ver)

parse(bytes) ==
    LET ver == detect(bytes)
    IN  IF ver = "None" THEN Err("BadVersion")
        ELSE MacBinary_read_dep(ReadScope_ctxt(ReadScope_new(bytes)), ver)

\* ------------------------------------------------------------------------
\* Input buffers.  A buffer is laid out from a record of the header bytes the
\* decoder looks at; every other header byte is a fixed filler.

\* Extra bytes that may follow the resource fork.
MaxTail == 2

\* n rounded up to a multiple of 128, over the naturals.
RoundUp128(n) == ((n + 127) \div 128) * 128

U32Bytes(v) == << v.hi \div U8_LIMIT, v.hi % U8_LIMIT, v.lo \div U8_LIMIT, v.lo % U8_LIMIT >>

\* The header byte at Rust offset k < 124, before p.poke is applied.
FieldByte(p, k) ==
    CASE k = 0 -> p.b0
      [] k = 1 -> p.fnlen
      [] k = 2 -> p.b2
      [] k \in 3 .. 72 -> 65 + (k % 26)
      [] k = 74 -> p.b74
      [] k = 82 -> p.b82
      [] k \in 83 .. 86 -> U32Bytes(p.D)[k - 82]
      [] k \in 87 .. 90 -> U32Bytes(p.R)[k - 86]
      [] k \in 91 .. 98 -> k
      [] k = 101 -> p.b101
      [] k \in 102 .. 105 -> IF p.sig THEN U32Bytes(MBIN_SIG)[k - 101] ELSE 0
      [] k = 120 -> p.S \div U8_LIMIT
      [] k = 121 -> p.S % U8_LIMIT
      [] OTHER -> 0

\* p.poke names one more header offset to hold a 1 (or none, when negative).
HeaderByte(p, k) == IF k = p.poke THEN 1 ELSE FieldByte(p, k)

\* The stored CRC: the right one, or a fixed wrong one.
StoredCrc(p, first124) ==
    CASE p.crc = "ok" -> calc_crc(first124)
      [] p.crc = "zero" -> 0
      [] p.crc = "one" -> 1
      [] p.crc = "hi" -> U8_LIMIT

BuildHeader(p) ==
    LET first124 == [k \in 1 .. 124 |-> HeaderByte(p, k - 1)]
        crc == StoredCrc(p, first124)
    IN  first124 \o << crc \div U8_LIMIT, crc % U8_LIMIT, HeaderByte(p, 126), HeaderByte(p, 127) >>

\* A fork length the buffer can hold in full; a longer fork gets no bytes.
Supplied(v) == IF v.hi = 0 /\ v.lo <= 1024 THEN v.lo ELSE 0

\* The bytes after the header: secondary header, data fork, padding and
\* resource fork as the header declares them, less what p.cut leaves out,
\* plus p.tail bytes more.
PayloadLen(p) ==
    LET sp == IF p.S <= U16_MAX - 127 THEN RoundUp128(p.S) ELSE 0
        d == Supplied(p.D)
        pad == RoundUp128(d) - d
        r == Supplied(p.R)
        full == sp + d + pad + r
        cut == CASE p.cut = "none" -> 0
                 [] p.cut = "last" -> 1
                 [] p.cut = "rsrc" -> r + 1
                 [] p.cut = "pad" -> r + pad
                 [] p.cut = "data" -> r + pad + 1
                 [] p.cut = "sec" -> d + pad + r + 1
    IN  (IF cut > full THEN 0 ELSE full - cut) + p.tail

PayloadByte(i) == (i * 7 + 3) % U8_LIMIT

Build(p) ==
    LET header == BuildHeader(p)
    IN  IF p.hkeep < 128 THEN SubSeq(header, 1, p.hkeep)
        ELSE header \o [i \in 1 .. PayloadLen(p) |-> PayloadByte(i)]

Cuts == {"last", "rsrc", "pad", "data", "sec"}

\* Headers alone: every order of the tests detect makes.
DetectParams ==
    [b0 : {0, 1}, fnlen : {9}, b2 : {0, 1, 63, 64}, b74 : {0, 1}, b82 : {0, 1},
     D : {U32(0, 0)}, R : {U32(0, 0)}, b101 : {0}, sig : BOOLEAN, S : {0},
     crc : {"ok", "zero", "one", "hi"}, poke : {-1, 100, 101, 113, 123, 126},
     hkeep : {128}, cut : {"none"}, tail : {0}]

\* The fork length limits of the version I test.
ForkLenParams ==
    [b0 : {0}, fnlen : {1, 32}, b2 : {1}, b74 : {0}, b82 : {0},
     D : {U32(0, 0), FORK_LEN_MAX, U32(128, 0), U32_MAX},
     R : {U32(0, 0), FORK_LEN_MAX, U32(128, 0), U32_MAX},
     b101 : {0, 1}, sig : {FALSE}, S : {0},
     crc : {"zero"}, poke : {-1}, hkeep : {128}, cut : {"none"}, tail : {0}]

\* The filename length byte and the byte after it.
NameParams ==
    [b0 : {0}, fnlen : {0, 1, 2, 31, 32, 63, 64, 255}, b2 : {0, 63}, b74 : {0}, b82 : {0},
     D : {U32(0, 0)}, R : {U32(0, 0)}, b101 : {0}, sig : BOOLEAN, S : {0},
     crc : {"ok", "zero"}, poke : {-1}, hkeep : {128}, cut : {"none"}, tail : {0}]

\* Buffers shorter than a header.
ShortParams ==
    [b0 : {0}, fnlen : {9}, b2 : {70}, b74 : {0}, b82 : {0},
     D : {U32(0, 0)}, R : {U32(0, 0)}, b101 : {0}, sig : BOOLEAN, S : {0},
     crc : {"ok", "zero"}, poke : {-1}, hkeep : {0, 1, 106, 126, 127},
     cut : {"none"}, tail : {0}]

\* Whole files: secondary header, forks and padding, complete, cut short or
\* followed by more bytes.
FileParams ==
    { p \in [b0 : {0}, fnlen : {1, 31}, b2 : {70}, b74 : {0}, b82 : {0},
             D : {U32(0, 0), U32(0, 1), U32(0, 128)}, R : {U32(0, 0), U32(0, 2)},
             b101 : {0}, sig : BOOLEAN, S : {0, 1, 128, U16_MAX},
             crc : {"ok", "zero"}, poke : {-1}, hkeep : {128},
             cut : Cuts \cup {"none"}, tail : 0 .. MaxTail] :
        p.tail = 0 \/ p.cut = "none" }

Inputs ==
    { Build(p) : p \in DetectParams \cup ForkLenParams \cup NameParams
                       \cup ShortParams \cup FileParams }

\* ------------------------------------------------------------------------
\* The caller: it holds a buffer, asks detect about it, then parses it.

NotRounding == [ty |-> "none"]

NoOrig == [tag |-> "none"]

\* No scope call, resource fork or iterator is in play.
NoCall == [op |-> "none"]

NoFork == [tag |-> "unset"]

NoIter == [kind |-> "none"]

NoCursor == [tag |-> "unset"]

NoArray == [tag |-> "unset"]

ContainerOnly ==
    /\ target = ReadScope_new(<<>>)
    /\ call = NoCall
    /\ fork = NoFork
    /\ iter = NoIter
    /\ cursor = NoCursor
    /\ arr = NoArray

Init ==
    /\ data \in Inputs
    /\ version = "unset"
    /\ file = [tag |-> "unset"]
    /\ orig = NoOrig
    /\ rnd = NotRounding
    /\ ContainerOnly

Detect ==
    /\ version = "unset"
    /\ version' = detect(data)
    /\ UNCHANGED <<data, file, orig, rnd, target, call, fork, iter, cursor, arr>>

Parse ==
    /\ version # "unset"
    /\ file.tag = "unset"
    /\ file' = parse(data)
    /\ UNCHANGED <<data, version, orig, rnd, target, call, fork, iter, cursor, arr>>

Next == Detect \/ Parse

Spec == Init /\ [][Next]_vars

\* ------------------------------------------------------------------------
\* One byte of a decoded file is damaged, and the caller detects and parses
\* the damaged buffer.

\* The damage: the bits of the byte that flip.
CorruptMasks == {1, 128}

CorruptParams ==
    [b0 : {0}, fnlen : {9}, b2 : {70}, b74 : {0, 1}, b82 : {0},
     D : {U32(0, 0), U32(0, 1)}, R : {U32(0, 2)}, b101 : {0}, sig : BOOLEAN, S : {0},
     crc : {"ok"}, poke : {-1}, hkeep : {128}, cut : {"none"}, tail : {1}]

CorruptBases == { Build(p) : p \in CorruptParams }

InitCorrupt ==
    /\ data \in CorruptBases
    /\ version = "unset"
    /\ file = [tag |-> "unset"]
    /\ orig = NoOrig
    /\ rnd = NotRounding
    /\ ContainerOnly

\* The byte at Rust offset i of a successfully parsed buffer changes; what
\* the buffer was and how it parsed is kept in orig.
Corrupt(i, m) ==
    /\ orig = NoOrig
    /\ file.tag = "Ok"
    /\ data' = [data EXCEPT ![i + 1] = Xor8(@, m)]
    /\ orig' = [tag |-> "some", data |-> data, version |-> version, file |-> file, at |-> i]
    /\ version' = "unset"
    /\ file' = [tag |-> "unset"]
    /\ UNCHANGED <<rnd, target, call, fork, iter, cursor, arr>>

NextCorrupt ==
    \/ Detect
    \/ Parse
    \/ \E i \in 0 .. Len(data) - 1, m \in CorruptMasks : Corrupt(i, m)

SpecCorrupt == InitCorrupt /\ [][NextCorrupt]_vars

\* ------------------------------------------------------------------------
\* The round-up helpers on their own: every u16, and the u32 values whose
\* low limb is within RoundWindow of either end, for high limbs at both
\* ends and in the middle of the range.

RoundWindow == 300

U32Samples ==
    { U32(h, l) : h \in {0, 1, U16_LIMIT \div 2 - 1, U16_LIMIT \div 2, U16_MAX - 1, U16_MAX},
                  l \in (0 .. RoundWindow) \cup (U16_MAX - RoundWindow .. U16_MAX) }

Unrounded(ty, v) == [ty |-> ty, value |-> v, result |-> [tag |-> "unset"]]

InitRound ==
    /\ data = <<>>
    /\ version = "unset"
    /\ file = [tag |-> "unset"]
    /\ orig = NoOrig
    /\ ContainerOnly
    /\ \/ rnd \in { Unrounded("u16", v) : v \in 0 .. U16_MAX }
       \/ rnd \in { Unrounded("u32", v) : v \in U32Samples }

RoundU16 ==
    /\ rnd.ty = "u16"
    /\ rnd.result.tag = "unset"
    /\ rnd' = [rnd EXCEPT !.result = next_u16_multiple_of_128(rnd.value)]
    /\ UNCHANGED <<data, version, file, orig, target, call, fork, iter, cursor, arr>>

RoundU32 ==
    /\ rnd.ty = "u32"
    /\ rnd.result.tag = "unset"
    /\ rnd' = [rnd EXCEPT !.result = next_u32_multiple_of_128(rnd.value)]
    /\ UNCHANGED <<data, version, file, orig, target, call, fork, iter, cursor, arr>>

NextRound == RoundU16 \/ RoundU32

SpecRound == InitRound /\ [][NextRound]_vars

\* ------------------------------------------------------------------------
\* binary/read.rs: unchecked reads of array items, ReadArray

Some(v) == [tag |-> "Some", val |-> v]

None == [tag |-> "None"]

\* A panic: unwrap on an Err, an index out of bounds, and the like.
Panic == [tag |-> "Panic"]

\* get_unchecked past the end of the slice: undefined behaviour.
Wild == [tag |-> "Wild"]

\* Whether the next n bytes at the cursor are inside its scope.
InScope(ctxt, n) == ctxt.offset + n <= Len(ctxt.scope.data)

\* as i16
AsI16(v) == IF v >= U16_LIMIT \div 2 THEN v - U16_LIMIT ELSE v

read_unchecked_i16be(ctxt) ==
    With(read_unchecked_u16be(ctxt), LAMBDA r : ReadOk(AsI16(r.val), r.ctxt))

\* (b0 << 16) | (b1 << 8) | b2, as a u32
read_unchecked_u24be(ctxt) ==
    ReadOk(U32(ByteAt(ctxt, ctxt.offset),
               ByteAt(ctxt, ctxt.offset + 1) * U8_LIMIT + ByteAt(ctxt, ctxt.offset + 2)),
           Advance(ctxt, 3))

\* resource.rs: TypeListItem, read as (FourCC, U16Be, U16Be)
TypeListItem_from(rsrc_type, num_rsrc, reference_list_offset) ==
    [rsrc_type |-> rsrc_type,
     num_rsrc |-> (num_rsrc + 1) % U16_LIMIT,
     reference_list_offset |-> reference_list_offset]

\* resource.rs: ReferenceListItem, read as ((I16Be, I16Be, U8), U24Be, U32Be)
ReferenceListItem_from(id, name_offset, attributes, data_offset, reserved) ==
    [id |-> id,
     name_offset |-> IF name_offset >= 0 THEN Some(name_offset % U16_LIMIT) ELSE None,
     attributes |-> attributes,
     data_offset |-> data_offset]

read_i16be(ctxt) ==
    IF check_avail(ctxt, 2) THEN read_unchecked_i16be(ctxt) ELSE ReadErr("BadEof", ctxt)

\* The binary types of binary.rs.
ScalarTypes == {"U8", "I8", "U16Be", "I16Be", "U24Be", "U32Be", "I32Be", "I64Be"}

\* Tuples of binary types, named as they are written, and their members.
TupleTypes == {"(U8, U16Be)", "(I16Be, I16Be, U8)"}

TupleMembers(T) ==
    IF T = "(U8, U16Be)" THEN <<"U8", "U16Be">> ELSE <<"I16Be", "I16Be", "U8">>

\* mod size, and size::U24 = 3
ScalarSize(T) ==
    CASE T \in {"U8", "I8"} -> 1
      [] T \in {"U16Be", "I16Be"} -> 2
      [] T = "U24Be" -> 3
      [] T \in {"U32Be", "I32Be"} -> 4
      [] T = "I64Be" -> 8

\* T1::SIZE + T2::SIZE (+ T3::SIZE)
RECURSIVE TupleSize(_)
TupleSize(members) ==
    IF members = <<>> THEN 0 ELSE ScalarSize(Head(members)) + TupleSize(Tail(members))

\* T::SIZE
SIZE(T) ==
    IF T \in ScalarTypes THEN ScalarSize(T)
    ELSE IF T \in TupleTypes THEN TupleSize(TupleMembers(T))
    ELSE IF T = "TypeListItem" THEN 4 + 2 + 2
    ELSE (2 + 2 + 1) + 3 + 4

\* A faulty variant of read_unchecked_scalar: a U24Be is put together least
\* significant byte first.
read_unchecked_scalar_le24(T, ctxt) ==
    CASE T = "U8" -> read_unchecked_u8(ctxt)
      [] T = "I8" -> read_unchecked_i8(ctxt)
      [] T = "U16Be" -> read_unchecked_u16be(ctxt)
      [] T = "I16Be" -> read_unchecked_i16be(ctxt)
      [] T = "U24Be" -> ReadOk(U32(ByteAt(ctxt, ctxt.offset + 2),
                                   ByteAt(ctxt, ctxt.offset + 1) * U8_LIMIT
                                       + ByteAt(ctxt, ctxt.offset)),
                               Advance(ctxt, 3))
      [] T = "U32Be" -> read_unchecked_u32be(ctxt)
      [] T = "I32Be" -> read_unchecked_i32be(ctxt)
      [] T = "I64Be" -> read_unchecked_i64be(ctxt)

\* impl ReadUnchecked for U8 .. I64Be: each calls the cursor's method.
read_unchecked_scalar(T, ctxt) ==
    CASE T = "U8" -> read_unchecked_u8(ctxt)
      [] T = "I8" -> read_unchecked_i8(ctxt)
      [] T = "U16Be" -> read_unchecked_u16be(ctxt)
      [] T = "I16Be" -> read_unchecked_i16be(ctxt)
      [] T = "U24Be" -> read_unchecked_u24be(ctxt)
      [] T = "U32Be" -> read_unchecked_u32be(ctxt)
      [] T = "I32Be" -> read_unchecked_i32be(ctxt)
      [] T = "I64Be" -> read_unchecked_i64be(ctxt)

\* impl ReadUnchecked for (T1, T2) and (T1, T2, T3): the members in order,
\* each from where the one before ended; got are the values so far.
RECURSIVE read_unchecked_tuple(_, _, _)
read_unchecked_tuple(members, ctxt, got) ==
    IF members = <<>> THEN ReadOk(got, ctxt)
    ELSE With(read_unchecked_scalar(Head(members), ctxt), LAMBDA r :
             read_unchecked_tuple(Tail(members), r.ctxt, Append(got, r.val)))

\* T::read_unchecked: the members in order, then T::from.  Nothing here looks
\* at how many bytes there are: a read past the scope is Wild.
read_unchecked(T, ctxt) ==
    IF ~InScope(ctxt, SIZE(T)) THEN Wild
    ELSE IF T \in ScalarTypes THEN read_unchecked_scalar(T, ctxt)
    ELSE IF T \in TupleTypes THEN read_unchecked_tuple(TupleMembers(T), ctxt, <<>>)
    ELSE IF T = "TypeListItem"
    THEN With(read_unchecked_u32be(ctxt), LAMBDA a :
         With(read_unchecked_u16be(a.ctxt), LAMBDA b :
         With(read_unchecked_u16be(b.ctxt), LAMBDA c :
             ReadOk(TypeListItem_from(a.val, b.val, c.val), c.ctxt))))
    ELSE With(read_unchecked_i16be(ctxt), LAMBDA a :
         With(read_unchecked_i16be(a.ctxt), LAMBDA b :
         With(read_unchecked_u8(b.ctxt), LAMBDA c :
         With(read_unchecked_u24be(c.ctxt), LAMBDA d :
         With(read_unchecked_u32be(d.ctxt), LAMBDA e :
             ReadOk(ReferenceListItem_from(a.val, b.val, c.val, d.val, e.val), e.ctxt))))))

\* impl ReadBinary for T: ReadUnchecked, behind ctxt.read::<T>() and
\* scope.read::<T>()
read(T, ctxt) ==
    IF check_avail(ctxt, SIZE(T)) THEN read_unchecked(T, ctxt) ELSE ReadErr("BadEof", ctxt)

\* A faulty variant of read_array: the bytes of the items are not asked for.
read_array_unchecked(ctxt, T, length) ==
    ReadOk([scope |-> ReadCtxt_scope(ctxt), length |-> length],
           Advance(ctxt, length * SIZE(T)))

\* ReadCtxt::read_array::<T>(length)
read_array(ctxt, T, length) ==
    With(read_scope(ctxt, length * SIZE(T)), LAMBDA r :
        IF r.tag = "Ok" THEN ReadOk([scope |-> r.val, length |-> length], r.ctxt) ELSE r)

\* ReadCtxt::read_array::<T>(length) as a build runs it: length * T::SIZE is
\* a plain multiplication, which panics on overflow where overflow checks
\* are on and wraps where they are off.
read_array_built(ctxt, T, length, checks, width) ==
    With(UsizeMul(length, SIZE(T), width), LAMBDA bytes :
        IF bytes.tag = "Overflowed" /\ checks THEN Panic
        ELSE With(read_scope(ctxt, bytes.val), LAMBDA r :
                 IF r.tag = "Ok" THEN ReadOk([scope |-> r.val, length |-> length], r.ctxt)
                 ELSE r))

\* ReadArray::empty
ReadArray_empty == [scope |-> ReadScope_new(<<>>), length |-> 0]

ReadArray_len(array) == array.length

check_index(array, index) ==
    IF UsizeLt(index, ReadArray_len(array)) THEN Ok(TRUE) ELSE Err("BadIndex")

\* ReadArray::get_item: Ok(item), or a panic.
get_item(array, T, index) ==
    IF UsizeLt(index, array.length)
    THEN With(offset_length(array.scope, index * SIZE(T), SIZE(T)), LAMBDA sub :
             IF sub.tag # "Ok" THEN Panic
             ELSE With(read_unchecked(T, ReadScope_ctxt(sub.val)), LAMBDA r :
                      IF r.tag = "Wild" THEN Wild ELSE Ok(r.val)))
    ELSE Panic

\* ReadArray::read_item: Ok(the result of the checked read), or a panic.
read_item(array, T, index) ==
    IF UsizeLt(index, array.length)
    THEN With(offset_length(array.scope, index * SIZE(T), SIZE(T)), LAMBDA sub :
             IF sub.tag # "Ok" THEN Panic
             ELSE With(read(T, ReadScope_ctxt(sub.val)), LAMBDA r :
                      IF r.tag = "Ok" THEN Ok(Ok(r.val)) ELSE Ok(Err(r.err))))
    ELSE Panic

\* A faulty variant of subarray: the view keeps the whole length.
subarray_keeping_length(array, T, index) ==
    IF UsizeLt(index, array.length)
    THEN [scope |-> ReadScope_offset(array.scope, index * SIZE(T)), length |-> array.length]
    ELSE [scope |-> ReadScope_new(<<>>), length |-> 0]

\* ReadArray::subarray
subarray(array, T, index) ==
    IF UsizeLt(index, array.length)
    THEN [scope |-> ReadScope_offset(array.scope, index * SIZE(T)),
          length |-> array.length - index]
    ELSE [scope |-> ReadScope_new(<<>>), length |-> 0]

ReadArray_iter(array) == [ctxt |-> ReadScope_ctxt(array.scope), length |-> array.length]

\* ReadArrayIter::size_hint
ReadArrayIter_size_hint(it) == [lower |-> it.length, upper |-> Some(it.length)]

\* ReadArray::iter_res
ReadArray_iter_res(array) == [array |-> array, index |-> 0]

\* ReadArrayDepIter::next: the item (or None) and the iterator after the
\* call.
ReadArrayDepIter_next(it, T) ==
    IF UsizeLt(it.index, ReadArray_len(it.array))
    THEN With(read_item(it.array, T, it.index), LAMBDA result :
             IF result.tag = "Panic" THEN [item |-> Panic, it |-> it]
             ELSE [item |-> Some(result.val), it |-> [it EXCEPT !.index = @ + 1]])
    ELSE [item |-> None, it |-> it]

\* ReadArrayDepIter::size_hint
ReadArrayDepIter_size_hint(it) ==
    IF UsizeLt(it.index, ReadArray_len(it.array))
    THEN [lower |-> ReadArray_len(it.array) - it.index,
          upper |-> Some(ReadArray_len(it.array) - it.index)]
    ELSE [lower |-> 0, upper |-> Some(0)]

\* ReadArrayIter::next: the item (or None) and the iterator after the call.
ReadArrayIter_next(it, T) ==
    IF it.length > 0
    THEN With(read_unchecked(T, it.ctxt), LAMBDA r :
             IF r.tag = "Wild" THEN [item |-> Wild, it |-> it]
             ELSE [item |-> Some(r.val), it |-> [ctxt |-> r.ctxt, length |-> it.length - 1]])
    ELSE [item |-> None, it |-> it]

\* The closures of the two find calls: item.rsrc_type == rsrc_type for a
\* type list, item.id == id for a reference list.
Matches(T, item, key) ==
    IF T = "TypeListItem" THEN item.rsrc_type = key ELSE item.id = key

\* Iterator::find over a ReadArrayIter: the first item that matches.
RECURSIVE ReadArrayIter_find(_, _, _)
ReadArrayIter_find(it, T, key) ==
    With(ReadArrayIter_next(it, T), LAMBDA n :
        IF n.item.tag # "Some" THEN n.item
        ELSE IF Matches(T, n.item.val, key) THEN n.item
        ELSE ReadArrayIter_find(n.it, T, key))

\* ------------------------------------------------------------------------
\* resource.rs: ResourceFork::new and the resource map

\* A faulty variant of TypeList_read: the reference list offsets are taken
\* from after the count field, where the items start.
TypeList_read_from_items(ctxt) ==
    With(read_u16be(ctxt), LAMBDA n :
        IF n.tag # "Ok" THEN Err(n.err)
        ELSE IF n.val + 1 > U16_MAX THEN Err("Overflow")
        ELSE With(read_array(n.ctxt, "TypeListItem", n.val + 1), LAMBDA list :
                 IF list.tag # "Ok" THEN Err(list.err)
                 ELSE Ok([scope |-> ReadCtxt_scope(n.ctxt), list |-> list.val])))

\* impl ReadBinary for TypeList
TypeList_read(ctxt) ==
    With(ReadCtxt_scope(ctxt), LAMBDA scope :
    With(read_u16be(ctxt), LAMBDA n :
        IF n.tag # "Ok" THEN Err(n.err)
        ELSE IF n.val + 1 > U16_MAX THEN Err("Overflow")
        ELSE With(read_array(n.ctxt, "TypeListItem", n.val + 1), LAMBDA list :
                 IF list.tag # "Ok" THEN Err(list.err)
                 ELSE Ok([scope |-> scope, list |-> list.val]))))

\* impl ReadBinary for ResourceMap
ResourceMap_read(ctxt) ==
    With(ReadCtxt_scope(ctxt), LAMBDA scope :
    With(read_slice(ctxt, 16 + 4 + 2), LAMBDA skip :
        IF skip.tag # "Ok" THEN Err(skip.err)
        ELSE With(read_u16be(skip.ctxt), LAMBDA attributes :
        IF attributes.tag # "Ok" THEN Err(attributes.err)
        ELSE With(read_u16be(attributes.ctxt), LAMBDA rsrc_type_list_offset :
        IF rsrc_type_list_offset.tag # "Ok" THEN Err(rsrc_type_list_offset.err)
        ELSE With(read_u16be(rsrc_type_list_offset.ctxt), LAMBDA rsrc_name_list_offset :
        IF rsrc_name_list_offset.tag # "Ok" THEN Err(rsrc_name_list_offset.err)
        ELSE With(TypeList_read(ReadScope_ctxt(
                      ReadScope_offset(scope, rsrc_type_list_offset.val))), LAMBDA type_list :
        IF type_list.tag # "Ok" THEN type_list
        ELSE Ok([attributes |-> attributes.val,
                 type_list |-> type_list.val,
                 name_list_scope |->
                     ReadScope_offset(scope, rsrc_name_list_offset.val)])))))))

\* The four header fields of ResourceFork::new, in the order they are read.
ResourceFork_header(ctxt) ==
    With(read_u32be(ctxt), LAMBDA data_offset :
        IF data_offset.tag # "Ok" THEN Err(data_offset.err)
        ELSE With(read_u32be(data_offset.ctxt), LAMBDA map_offset :
        IF map_offset.tag # "Ok" THEN Err(map_offset.err)
        ELSE With(read_u32be(map_offset.ctxt), LAMBDA data_len :
        IF data_len.tag # "Ok" THEN Err(data_len.err)
        ELSE With(read_u32be(data_len.ctxt), LAMBDA map_len :
        IF map_len.tag # "Ok" THEN Err(map_len.err)
        ELSE Ok([data_offset |-> data_offset.val,
                 map_offset |-> map_offset.val,
                 data_len |-> data_len.val,
                 map_len |-> map_len.val])))))

\* A faulty variant of ResourceFork_new: the data region is carved with
\* offset, which cuts the region down to the bytes there are.
ResourceFork_new_clamped(bytes) ==
    With(ReadScope_new(bytes), LAMBDA scope :
    With(ResourceFork_header(ReadScope_ctxt(scope)), LAMBDA h :
        IF h.tag # "Ok" THEN h
        ELSE With(ReadScope_offset(scope, num_from(h.val.data_offset)), LAMBDA rsrc_data :
             With(offset_length(scope, num_from(h.val.map_offset), num_from(h.val.map_len)),
                  LAMBDA map_data :
        IF map_data.tag # "Ok" THEN map_data
        ELSE With(ResourceMap_read(ReadScope_ctxt(map_data.val)), LAMBDA rsrc_map :
        IF rsrc_map.tag # "Ok" THEN rsrc_map
        ELSE Ok([rsrc_data |-> rsrc_data, map |-> rsrc_map.val]))))))

\* ResourceFork::new.  rsrc_data is kept with its place in the fork.
ResourceFork_new(bytes) ==
    With(ReadScope_new(bytes), LAMBDA scope :
    With(ResourceFork_header(ReadScope_ctxt(scope)), LAMBDA h :
        IF h.tag # "Ok" THEN h
        ELSE With(offset_length(scope, num_from(h.val.data_offset), num_from(h.val.data_len)),
                  LAMBDA rsrc_data :
        IF rsrc_data.tag # "Ok" THEN rsrc_data
        ELSE With(offset_length(scope, num_from(h.val.map_offset), num_from(h.val.map_len)),
                  LAMBDA map_data :
        IF map_data.tag # "Ok" THEN map_data
        ELSE With(ResourceMap_read(ReadScope_ctxt(map_data.val)), LAMBDA rsrc_map :
        IF rsrc_map.tag # "Ok" THEN rsrc_map
        ELSE Ok([rsrc_data |-> rsrc_data.val, map |-> rsrc_map.val]))))))

\* ------------------------------------------------------------------------
\* resource.rs: lookups

\* TypeListItem::reference_list: .ok() turns every failure into None.
TypeListItem_reference_list(item, scope) ==
    With(read_array(ReadScope_ctxt(ReadScope_offset(scope, item.reference_list_offset)),
                    "ReferenceListItem", item.num_rsrc), LAMBDA r :
        IF r.tag = "Ok" THEN Some([list |-> r.val]) ELSE None)

\* TypeList::find
TypeList_find(type_list, rsrc_type) ==
    With(ReadArrayIter_find(ReadArray_iter(type_list.list), "TypeListItem", rsrc_type),
         LAMBDA item :
        IF item.tag # "Some" THEN item
        ELSE TypeListItem_reference_list(item.val, type_list.scope))

\* A faulty variant of ReferenceList::find: the last entry with the id.
RECURSIVE ReadArrayIter_find_last(_, _, _, _)
ReadArrayIter_find_last(it, T, key, found) ==
    With(ReadArrayIter_next(it, T), LAMBDA n :
        IF n.item.tag # "Some" THEN found
        ELSE ReadArrayIter_find_last(n.it, T, key,
                                     IF Matches(T, n.item.val, key) THEN n.item ELSE found))

ReferenceList_find_last(reference_list, id) ==
    ReadArrayIter_find_last(ReadArray_iter(reference_list.list), "ReferenceListItem", id, None)

\* ReferenceList::find
ReferenceList_find(reference_list, id) ==
    ReadArrayIter_find(ReadArray_iter(reference_list.list), "ReferenceListItem", id)

\* A faulty variant of read_resource_data: the bytes are taken from the
\* offset, length prefix included.
read_resource_data_with_prefix(self, offset) ==
    With(ReadScope_ctxt(ReadScope_offset(ReadScope_new(self.rsrc_data.data), num_from(offset))),
         LAMBDA ctxt :
    With(read_u32be(ctxt), LAMBDA len :
        IF len.tag # "Ok" THEN None
        ELSE With(read_slice(ctxt, num_from(len.val)), LAMBDA bytes :
                 IF bytes.tag # "Ok" THEN None ELSE Some(bytes.val))))

\* ResourceFork::read_resource_data: the slice, with its place in the data
\* region.
read_resource_data(self, offset) ==
    With(ReadScope_ctxt(ReadScope_offset(ReadScope_new(self.rsrc_data.data), num_from(offset))),
         LAMBDA ctxt :
    With(read_u32be(ctxt), LAMBDA len :
        IF len.tag # "Ok" THEN None
        ELSE With(read_slice(len.ctxt, num_from(len.val)), LAMBDA bytes :
                 IF bytes.tag # "Ok" THEN None ELSE Some(bytes.val))))

\* ResourceFork::read_name: the slice, with its place in the fork.
read_name(self, offset) ==
    With(ReadScope_ctxt(ReadScope_offset(self.map.name_list_scope, offset)), LAMBDA ctxt :
    With(read_u8(ctxt), LAMBDA len :
        IF len.tag # "Ok" THEN None
        ELSE With(read_slice(len.ctxt, len.val), LAMBDA bytes :
                 IF bytes.tag # "Ok" THEN None ELSE Some(bytes.val))))

\* A faulty variant of read_resource: a name that cannot be read makes the
\* resource absent.
read_resource_needing_name(self, item) ==
    With(read_resource_data(self, item.data_offset), LAMBDA bytes :
    With(IF item.name_offset.tag = "Some" THEN read_name(self, item.name_offset.val) ELSE None,
         LAMBDA name :
        IF bytes.tag # "Some" \/ (item.name_offset.tag = "Some" /\ name.tag # "Some") THEN None
        ELSE Some([id |-> item.id, name |-> name, attributes |-> item.attributes,
                   data |-> bytes.val])))

\* ResourceFork::read_resource
read_resource(self, item) ==
    With(read_resource_data(self, item.data_offset), LAMBDA bytes :
        IF bytes.tag # "Some" THEN None
        ELSE Some([id |-> item.id,
                   name |-> IF item.name_offset.tag = "Some"
                            THEN read_name(self, item.name_offset.val) ELSE None,
                   attributes |-> item.attributes,
                   data |-> bytes.val]))

\* ResourceFork::get_resource
get_resource(self, rsrc_type, rsrc_id) ==
    With(TypeList_find(self.map.type_list, rsrc_type), LAMBDA reference_list :
        IF reference_list.tag # "Some" THEN reference_list
        ELSE With(ReferenceList_find(reference_list.val, rsrc_id), LAMBDA item :
                 IF item.tag # "Some" THEN item ELSE read_resource(self, item.val)))

\* ------------------------------------------------------------------------
\* resource.rs: the iterators.  An iterator is its index (type_index or
\* rsrc_index) and, for Resources, the type entry it was made for.

\* usize - usize: a panic with overflow checks and a wrapped difference
\* without, when b > a.
UsizeSub(a, b) == IF b > a THEN Overflowed(a - b) ELSE Ok(a - b)

\* ResourceTypes::next: the item and the index after the call.
ResourceTypes_next(self, type_index) ==
    With(self.map.type_list.list, LAMBDA list :
        IF check_index(list, type_index).tag # "Ok" THEN [item |-> None, index |-> type_index]
        ELSE With(get_item(list, "TypeListItem", type_index), LAMBDA type_list_item :
                 IF type_list_item.tag # "Ok" THEN [item |-> type_list_item, index |-> type_index]
                 ELSE [item |-> Some(type_list_item.val), index |-> type_index + 1]))

\* ResourceTypes::size_hint: (lower, upper).
ResourceTypes_size_hint(self, type_index) ==
    With(UsizeSub(ReadArray_len(self.map.type_list.list), type_index), LAMBDA num_remaining :
        IF num_remaining.tag # "Ok" THEN num_remaining
        ELSE Ok([lower |-> num_remaining.val, upper |-> Some(num_remaining.val)]))

\* Resources::reference_list
Resources_reference_list(self, item) ==
    TypeListItem_reference_list(item, self.map.type_list.scope)

\* A faulty variant of Resources::next: an entry whose resource cannot be
\* read is passed over.
Resources_next_skipping(self, item, rsrc_index) ==
    With(Resources_reference_list(self, item), LAMBDA reference_list :
        IF reference_list.tag # "Some" THEN [item |-> None, index |-> rsrc_index]
        ELSE IF check_index(reference_list.val.list, rsrc_index).tag # "Ok"
        THEN [item |-> None, index |-> rsrc_index]
        ELSE With(get_item(reference_list.val.list, "ReferenceListItem", rsrc_index),
                  LAMBDA reference_list_item :
        IF reference_list_item.tag # "Ok"
        THEN [item |-> reference_list_item, index |-> rsrc_index]
        ELSE With(read_resource(self, reference_list_item.val), LAMBDA resource :
                  [item |-> resource, index |-> rsrc_index + 1])))

\* Resources::next
Resources_next(self, item, rsrc_index) ==
    With(Resources_reference_list(self, item), LAMBDA reference_list :
        IF reference_list.tag # "Some" THEN [item |-> None, index |-> rsrc_index]
        ELSE IF check_index(reference_list.val.list, rsrc_index).tag # "Ok"
        THEN [item |-> None, index |-> rsrc_index]
        ELSE With(get_item(reference_list.val.list, "ReferenceListItem", rsrc_index),
                  LAMBDA reference_list_item :
        IF reference_list_item.tag # "Ok"
        THEN [item |-> reference_list_item, index |-> rsrc_index]
        ELSE With(read_resource(self, reference_list_item.val), LAMBDA resource :
        IF resource.tag # "Some" THEN [item |-> None, index |-> rsrc_index]
        ELSE [item |-> resource, index |-> rsrc_index + 1])))

\* Resources::size_hint
Resources_size_hint(self, item, rsrc_index) ==
    With(Resources_reference_list(self, item), LAMBDA reference_list :
        IF reference_list.tag # "Some" THEN Ok([lower |-> 0, upper |-> None])
        ELSE With(UsizeSub(ReadArray_len(reference_list.val.list), rsrc_index),
                  LAMBDA num_remaining :
        IF num_remaining.tag # "Ok" THEN num_remaining
        ELSE Ok([lower |-> num_remaining.val, upper |-> Some(num_remaining.val)])))

\* ------------------------------------------------------------------------
\* ReadScope on its own: a scope over a buffer, narrowed by offset, and one
\* call of offset_length on it.

MaxScopeLen == 3

\* The buffer of tests::test_offset_length_oob, &[1, 2, 3], and its like.
ScopeBytes(n) == [k \in 1 .. n |-> k]

\* The usize arguments tried: those around the buffer's length and those at
\* the top of the range.
UsizeArgs == (0 .. MaxScopeLen + 2) \cup {USIZE_MAX - 1, USIZE_MAX}

InitScope ==
    /\ data \in { ScopeBytes(n) : n \in 0 .. MaxScopeLen }
    /\ target = ReadScope_new(data)
    /\ call = NoCall
    /\ version = "unset"
    /\ file = [tag |-> "unset"]
    /\ orig = NoOrig
    /\ rnd = NotRounding
    /\ fork = NoFork
    /\ iter = NoIter
    /\ cursor = NoCursor
    /\ arr = NoArray

\* scope.offset(k), for the offsets up to one past the buffer.
ScopeOffset(k) ==
    /\ call = NoCall
    /\ target.base + k <= MaxScopeLen + 1
    /\ target' = ReadScope_offset(target, k)
    /\ UNCHANGED <<data, version, file, orig, rnd, call, fork, iter, cursor, arr>>

\* scope.offset_length(offset, length), in a build with or without overflow
\* checks.
ScopeOffsetLength(offset, length, checks) ==
    /\ call = NoCall
    /\ call' = [op |-> "offset_length", offset |-> offset, length |-> length,
                result |-> Built(offset_length(target, offset, length), checks)]
    /\ UNCHANGED <<data, version, file, orig, rnd, target, fork, iter, cursor, arr>>

\* One call of scope.offset(offset), the scope left as it is.
ScopeOffsetCall(offset, checks) ==
    /\ call = NoCall
    /\ call' = [op |-> "offset", offset |-> offset,
                result |-> ReadScope_offset_built(target, offset, checks)]
    /\ UNCHANGED <<data, version, file, orig, rnd, target, fork, iter, cursor, arr>>

\* scope.offset(i).offset(j - i) and scope.offset_length(j, len - j), for
\* i <= j <= len.
ScopeCompose(i, j, checks) ==
    /\ call = NoCall
    /\ i <= j
    /\ j <= Len(target.data)
    /\ call' = [op |-> "compose", i |-> i, j |-> j,
                chained |-> With(ReadScope_offset_built(target, i, checks), LAMBDA a :
                                IF a.tag # "Ok" THEN a
                                ELSE ReadScope_offset_built(a.val, j - i, checks)),
                carved |-> Built(offset_length(target, j, Len(target.data) - j), checks)]
    /\ UNCHANGED <<data, version, file, orig, rnd, target, fork, iter, cursor, arr>>

NextScope ==
    \/ \E k \in 1 .. MaxScopeLen + 1 : ScopeOffset(k)
    \/ \E offset \in UsizeArgs, length \in UsizeArgs, checks \in BOOLEAN :
           ScopeOffsetLength(offset, length, checks)
    \/ \E offset \in UsizeArgs, checks \in BOOLEAN : ScopeOffsetCall(offset, checks)
    \/ \E i \in 0 .. MaxScopeLen, j \in 0 .. MaxScopeLen, checks \in BOOLEAN :
           ScopeCompose(i, j, checks)

SpecScope == InitScope /\ [][NextScope]_vars

\* ------------------------------------------------------------------------
\* A cursor on its own: reads of every kind, one after another, on a cursor
\* over a buffer.

MaxCursorLen == 9

\* The buffer of tests::test_read_u24be, &[1, 2, 3], and its like.
CursorBytes(n) == [k \in 1 .. n |-> k]

\* Bytes with the top bit set: 255, 254, and so on.
SignBytes(n) == [k \in 1 .. n |-> U8_LIMIT - k]

\* The lengths asked of read_scope, read_slice and check_avail.
CursorArgs == (0 .. MaxCursorLen + 1) \cup {USIZE_MAX - 1, USIZE_MAX}

\* The cursor's read methods.
ReadMethods ==
    {"read_u8", "read_i8", "read_u16be", "read_i16be", "read_u32be", "read_i32be",
     "read_u64be", "read_i64be"}

\* The method m called on the cursor.
MethodRead(m, ctxt) ==
    CASE m = "read_u8" -> read_u8(ctxt)
      [] m = "read_i8" -> read_i8(ctxt)
      [] m = "read_u16be" -> read_u16be(ctxt)
      [] m = "read_i16be" -> read_i16be(ctxt)
      [] m = "read_u32be" -> read_u32be(ctxt)
      [] m = "read_i32be" -> read_i32be(ctxt)
      [] m = "read_u64be" -> read_u64be(ctxt)
      [] m = "read_i64be" -> read_i64be(ctxt)

\* The item types of the arrays read.
ArrayTypes == {"U8", "U24Be", "U32Be", "(U8, U16Be)"}

\* The item counts asked of read_array: those a buffer may hold, those whose
\* byte count passes a 32-bit usize, and usize::MAX.
ArrayLengths == (0 .. 3) \cup {USIZE_HUGE, USIZE_HUGE + 1, USIZE_MAX}

\* What a read left behind, without the cursor.
Outcome(r) ==
    IF r.tag = "Ok" THEN Ok(r.val) ELSE IF r.tag = "Err" THEN Err(r.err) ELSE [tag |-> r.tag]

\* No call on the cursor has panicked.
Live == IF call.op = "none" THEN TRUE ELSE call.result.tag # "Panic"

InitCursor ==
    /\ data \in { CursorBytes(n) : n \in 0 .. MaxCursorLen }
                   \cup { SignBytes(n) : n \in 1 .. MaxCursorLen }
    /\ cursor \in { ReadScope_ctxt(ReadScope_offset(ReadScope_new(data), k)) : k \in 0 .. 1 }
    /\ call = NoCall
    /\ target = ReadScope_new(<<>>)
    /\ version = "unset"
    /\ file = [tag |-> "unset"]
    /\ orig = NoOrig
    /\ rnd = NotRounding
    /\ fork = NoFork
    /\ iter = NoIter
    /\ arr = NoArray

\* The cursor and the record of a call that returned r.
Called(op, arg, r) ==
    /\ cursor' = IF r.tag \in {"Ok", "Err"} THEN r.ctxt ELSE cursor
    /\ call' = [op |-> op, arg |-> arg, before |-> cursor, result |-> Outcome(r)]
    /\ UNCHANGED <<data, version, file, orig, rnd, target, fork, iter, arr>>

\* ctxt.read::<T>()
CursorRead(T) == Live /\ Called("read", T, read(T, cursor))

\* ctxt.read_u8() and the like
CursorReadMethod(m) == Live /\ Called(m, m, MethodRead(m, cursor))

\* ctxt.read_scope(length)
CursorReadScope(length) == Live /\ Called("read_scope", length, read_scope(cursor, length))

\* ctxt.read_slice(length)
CursorReadSlice(length) == Live /\ Called("read_slice", length, read_slice(cursor, length))

\* ctxt.read_array::<T>(length), in a build with or without overflow checks
\* for a pointer width.
CursorReadArray(T, length, checks, width) ==
    Live /\ Called("read_array", [type |-> T, length |-> length],
                   read_array_built(cursor, T, length, checks, width))

\* ctxt.check_avail(length): the cursor stays where it is.
CursorCheckAvail(length) ==
    /\ Live
    /\ call' = [op |-> "check_avail", arg |-> length, before |-> cursor,
                result |-> [tag |-> "Avail", val |-> check_avail(cursor, length)]]
    /\ UNCHANGED <<data, version, file, orig, rnd, target, fork, iter, cursor, arr>>

NextCursor ==
    \/ \E T \in ScalarTypes \cup TupleTypes : CursorRead(T)
    \/ \E m \in ReadMethods : CursorReadMethod(m)
    \/ \E length \in CursorArgs : CursorReadScope(length)
    \/ \E length \in CursorArgs : CursorReadSlice(length)
    \/ \E T \in ArrayTypes, length \in ArrayLengths, checks \in BOOLEAN, width \in PointerWidths :
           CursorReadArray(T, length, checks, width)
    \/ \E length \in CursorArgs : CursorCheckAvail(length)

SpecCursor == InitCursor /\ [][NextCursor]_vars

\* ------------------------------------------------------------------------
\* An array on its own: read from a cursor or made empty, narrowed by
\* subarray, indexed and iterated.

MaxArrayLen == 6

\* The indexes tried: those around the arrays' lengths and usize::MAX.
ArrayIndexes == (0 .. 4) \cup {USIZE_MAX}

\* ReadCtxt::read_array_dep::<T>(length, ()): for T: ReadUnchecked,
\* T::size(()) is T::SIZE and the rest is read_array's.
read_array_dep_built(ctxt, T, length, checks, width) ==
    read_array_built(ctxt, T, length, checks, width)

\* No next has been called on the iterator.
NotAsked == [tag |-> "Fresh"]

InitArray ==
    /\ data \in { CursorBytes(n) : n \in 0 .. MaxArrayLen }
    /\ cursor = ReadScope_ctxt(ReadScope_new(data))
    /\ arr = NoArray
    /\ call = NoCall
    /\ iter = NoIter
    /\ target = ReadScope_new(<<>>)
    /\ version = "unset"
    /\ file = [tag |-> "unset"]
    /\ orig = NoOrig
    /\ rnd = NotRounding
    /\ fork = NoFork

\* The array a read handed out, with its item type; of is the array it was
\* cut from by subarray, at the index at, and cuts counts the subarray calls
\* behind it.
Made(T, r) ==
    IF r.tag = "Ok"
    THEN [tag |-> "Ok", type |-> T, val |-> r.val, of |-> NoArray, at |-> 0, cuts |-> 0]
    ELSE [tag |-> r.tag]

\* ctxt.read_array::<T>(length) or ctxt.read_array_dep::<T>(length, ()).
ArrayRead(dep, T, length, checks, width) ==
    /\ arr = NoArray
    /\ LET r == IF dep THEN read_array_dep_built(cursor, T, length, checks, width)
                ELSE read_array_built(cursor, T, length, checks, width)
       IN  /\ arr' = Made(T, r)
           /\ cursor' = IF r.tag = "Ok" THEN r.ctxt ELSE cursor
    /\ UNCHANGED <<data, version, file, orig, rnd, target, call, fork, iter>>

\* ReadArray::<T>::empty()
ArrayEmpty(T) ==
    /\ arr = NoArray
    /\ arr' = Made(T, Ok(ReadArray_empty))
    /\ UNCHANGED <<data, version, file, orig, rnd, target, call, fork, iter, cursor>>

\* array.subarray(index), once or twice in a row.
ArraySub(index) ==
    /\ arr.tag = "Ok"
    /\ call = NoCall
    /\ iter = NoIter
    /\ arr.cuts < 2
    /\ arr' = [arr EXCEPT !.val = subarray(arr.val, arr.type, index), !.of = arr.val,
                          !.at = index, !.cuts = @ + 1]
    /\ UNCHANGED <<data, version, file, orig, rnd, target, call, fork, iter, cursor>>

\* array.get_item(index), array.read_item(index), array.check_index(index)
ArrayAccess(op, index) ==
    /\ arr.tag = "Ok"
    /\ iter = NoIter
    /\ call' = [op |-> op, index |-> index,
                result |-> CASE op = "get_item" -> get_item(arr.val, arr.type, index)
                             [] op = "read_item" -> read_item(arr.val, arr.type, index)
                             [] op = "check_index" -> check_index(arr.val, index)]
    /\ UNCHANGED <<data, version, file, orig, rnd, target, fork, iter, cursor, arr>>

\* array.iter() or array.iter_res()
ArrayIter(kind) ==
    /\ arr.tag = "Ok"
    /\ iter = NoIter
    /\ call = NoCall
    /\ LET it == IF kind = "iter" THEN ReadArray_iter(arr.val) ELSE ReadArray_iter_res(arr.val)
       IN  iter' = [kind |-> kind, it |-> it, yielded |-> 0, calls |-> 0, last |-> NotAsked,
                    hint |-> IF kind = "iter" THEN ReadArrayIter_size_hint(it)
                             ELSE ReadArrayDepIter_size_hint(it)]
    /\ UNCHANGED <<data, version, file, orig, rnd, target, call, fork, cursor, arr>>

\* next() on the iterator, then size_hint(): up to a few calls past the
\* bytes there are.
ArrayIterNext ==
    /\ iter.kind \in {"iter", "iter_res"}
    /\ iter.last.tag \notin {"Panic", "Wild"}
    /\ iter.calls < MaxArrayLen + 2
    /\ LET n == IF iter.kind = "iter" THEN ReadArrayIter_next(iter.it, arr.type)
                ELSE ReadArrayDepIter_next(iter.it, arr.type)
       IN  iter' = [iter EXCEPT !.it = n.it, !.last = n.item, !.calls = @ + 1,
                                !.yielded = IF n.item.tag = "Some" THEN @ + 1 ELSE @,
                                !.hint = IF iter.kind = "iter" THEN ReadArrayIter_size_hint(n.it)
                                         ELSE ReadArrayDepIter_size_hint(n.it)]
    /\ UNCHANGED <<data, version, file, orig, rnd, target, call, fork, cursor, arr>>

NextArray ==
    \/ \E dep \in BOOLEAN, T \in ArrayTypes, length \in ArrayLengths, checks \in BOOLEAN,
          width \in PointerWidths : ArrayRead(dep, T, length, checks, width)
    \/ \E T \in ArrayTypes : ArrayEmpty(T)
    \/ \E index \in ArrayIndexes : ArraySub(index)
    \/ \E op \in {"get_item", "read_item", "check_index"}, index \in ArrayIndexes :
           ArrayAccess(op, index)
    \/ \E kind \in {"iter", "iter_res"} : ArrayIter(kind)
    \/ ArrayIterNext

SpecArray == InitArray /\ [][NextArray]_vars

\* ------------------------------------------------------------------------
\* Resource forks: the fork of two types and three resources below, whole or
\* with one of its fields changed, is constructed, looked into and iterated.
\*
\*   offset 0    header: data offset 16, map offset 33, data length 17,
\*               map length 88
\*   offset 16   data region: resources of 2, 0 and 3 bytes, each after its
\*               u32 length, at 0, 6 and 10
\*   offset 33   map: 22 reserved bytes, attributes, type list offset 28,
\*               name list offset 82
\*   offset 61   type list: count - 1, two type entries, then the reference
\*               lists of type A (at 18, two entries) and B (at 42, one)
\*   offset 115  name list: "abc" at 0, "z" at 4

Be16(v) == << v \div U8_LIMIT, v % U8_LIMIT >>

\* An i16 as its two big-endian bytes.
I16Bytes(v) == Be16((v + U16_LIMIT) % U16_LIMIT)

\* A 24-bit offset as its three big-endian bytes.
Be24(v) == << v \div U16_LIMIT, (v \div U8_LIMIT) % U8_LIMIT, v % U8_LIMIT >>

\* b"MPSR", b"BBST" (the types of tests::test_iter_types) and b"TEXT"
TYPE_A == << 77, 80, 83, 82 >>

TYPE_B == << 66, 66, 83, 84 >>

TYPE_C == << 84, 69, 88, 84 >>

FourCCOf(bytes) == U32FromBe(bytes[1], bytes[2], bytes[3], bytes[4])

RefEntry(id, name_offset, attributes, data_offset) ==
    I16Bytes(id) \o I16Bytes(name_offset) \o << attributes >> \o Be24(data_offset)
        \o << 0, 0, 0, 0 >>

ForkBase ==
    [data_offset |-> U32(0, 16), map_offset |-> U32(0, 33), data_len |-> U32(0, 17),
     map_len |-> U32(0, 88), keep |-> 121, tlo |-> 28, nlo |-> 82, ntypes |-> 1,
     typeB |-> TYPE_B, numA |-> 1, refA |-> 18, numB |-> 0, refB |-> 42,
     id0 |-> 128, id1 |-> 129, idB |-> 128, name0 |-> -1, name1 |-> 0, nameB |-> 4,
     d0 |-> 0, d1 |-> 6, d2 |-> 10, len0 |-> U32(0, 2), namelen |-> 3]

ForkBytes(p) ==
    LET region == U32Bytes(p.len0) \o << 161, 162 >> \o U32Bytes(U32(0, 0))
                      \o U32Bytes(U32(0, 3)) \o << 163, 164, 165 >>
        types == Be16(p.ntypes) \o TYPE_A \o Be16(p.numA) \o Be16(p.refA)
                     \o p.typeB \o Be16(p.numB) \o Be16(p.refB)
                     \o RefEntry(p.id0, p.name0, 1, p.d0)
                     \o RefEntry(p.id1, p.name1, 2, p.d1)
                     \o RefEntry(p.idB, p.nameB, 3, p.d2)
        names == << p.namelen, 97, 98, 99, 1, 122 >>
        map == [k \in 1 .. 22 |-> 0] \o Be16(258) \o Be16(p.tlo) \o Be16(p.nlo)
                   \o types \o names
        whole == U32Bytes(p.data_offset) \o U32Bytes(p.map_offset) \o U32Bytes(p.data_len)
                     \o U32Bytes(p.map_len) \o region \o map
    IN  SubSeq(whole, 1, IF p.keep < Len(whole) THEN p.keep ELSE Len(whole))

\* The values each field takes in turn, the other fields as in ForkBase.
ForkFieldValues ==
    [data_offset |-> {U32(0, 0), U32(0, 104), U32(0, 105), U32(0, 121), U32(0, 200), U32_MAX},
     map_offset |-> {U32(0, 0), U32(0, 34), U32(0, 121), U32_MAX},
     data_len |-> {U32(0, 0), U32(0, 9), U32(0, 105), U32(0, 106), U32_MAX},
     map_len |-> {U32(0, 0), U32(0, 27), U32(0, 28), U32(0, 30), U32(0, 46), U32(0, 81),
                  U32(0, 87), U32(0, 89), U32_MAX},
     keep |-> {0, 15, 16, 120},
     tlo |-> {0, 26, 86, 87, 88, 200, U16_MAX},
     nlo |-> {0, 84, 88, 200},
     ntypes |-> {0, 2, 9, U16_MAX},
     typeB |-> {TYPE_A},
     numA |-> {0, 2, 3, U16_MAX - 1, U16_MAX},
     refA |-> {0, 30, 36, 37, 60, 61, U16_MAX},
     numB |-> {1, 2, U16_MAX},
     refB |-> {18, 48, 49},
     id0 |-> {-1, -32768, 129},
     id1 |-> {128},
     idB |-> {129},
     name0 |-> {0, 4, 5, 6, 7, -32768, 32767},
     name1 |-> {-1, 3, 5},
     nameB |-> {-2, 0},
     d0 |-> {6, 10, 13, 14, 16, 17, 18, Pow2(24) - 1},
     d1 |-> {0},
     d2 |-> {11},
     len0 |-> {U32(0, 0), U32(0, 1), U32(0, 13), U32(0, 14), U32(1, 0), U32_MAX},
     namelen |-> {0, 2, 5, 6, 255}]

\* A region of no bytes at an offset past the end of the fork.
ForkEmptyRegions ==
    { [ForkBase EXCEPT !.data_offset = o, !.data_len = U32(0, 0)] : o \in {U32(0, 200), U32_MAX} }
        \cup
    { [ForkBase EXCEPT !.map_offset = o, !.map_len = U32(0, 0)] : o \in {U32(0, 200)} }

ForkParams ==
    {ForkBase} \cup ForkEmptyRegions
        \cup UNION { { [ForkBase EXCEPT ![f] = v] : v \in ForkFieldValues[f] } :
                     f \in DOMAIN ForkFieldValues }

ForkInputs == { ForkBytes(p) : p \in ForkParams }

\* The types and ids asked for: those of the fork and ones it lacks.
QueryTypes == { FourCCOf(t) : t \in {TYPE_A, TYPE_B, TYPE_C} }

QueryIds == {128, 129, -1, 5}

InitFork ==
    /\ data \in ForkInputs
    /\ fork = NoFork
    /\ call = NoCall
    /\ iter = NoIter
    /\ cursor = NoCursor
    /\ arr = NoArray
    /\ target = ReadScope_new(<<>>)
    /\ version = "unset"
    /\ file = [tag |-> "unset"]
    /\ orig = NoOrig
    /\ rnd = NotRounding

\* ResourceFork::new(data)
New ==
    /\ fork = NoFork
    /\ fork' = ResourceFork_new(data)
    /\ UNCHANGED <<data, version, file, orig, rnd, target, call, iter, cursor, arr>>

\* fork.get_resource(rsrc_type, rsrc_id)
GetResource(rsrc_type, rsrc_id) ==
    /\ fork.tag = "Ok"
    /\ call = NoCall
    /\ iter = NoIter
    /\ call' = [op |-> "get_resource", rsrc_type |-> rsrc_type, rsrc_id |-> rsrc_id,
                result |-> get_resource(fork.val, rsrc_type, rsrc_id)]
    /\ UNCHANGED <<data, version, file, orig, rnd, target, fork, iter, cursor, arr>>

\* An iterator as the caller sees it: its index, what the last call of next
\* returned (Fresh before the first), what size_hint returns now, in a build
\* with or without overflow checks, and what it returned before the last
\* call of next.
Fresh == [tag |-> "Fresh"]

\* fork.resource_types()
ResourceTypes(checks) ==
    /\ fork.tag = "Ok"
    /\ call = NoCall
    /\ iter = NoIter
    /\ iter' = [kind |-> "ResourceTypes", item |-> None, index |-> 0, last |-> Fresh,
                hint |-> Built(ResourceTypes_size_hint(fork.val, 0), checks),
                before |-> Fresh]
    /\ UNCHANGED <<data, version, file, orig, rnd, target, call, fork, cursor, arr>>

\* ResourceTypes::next, then size_hint
TypesNext(checks) ==
    /\ iter.kind = "ResourceTypes"
    /\ iter.last.tag \in {"Fresh", "Some"}
    /\ LET n == ResourceTypes_next(fork.val, iter.index)
       IN  iter' = [iter EXCEPT !.index = n.index, !.last = n.item,
                                !.hint = Built(ResourceTypes_size_hint(fork.val, n.index), checks),
                                !.before = iter.hint]
    /\ UNCHANGED <<data, version, file, orig, rnd, target, call, fork, cursor, arr>>

\* fork.resources(item), for the type entry resource_types has just yielded
Resources(checks) ==
    /\ iter.kind = "ResourceTypes"
    /\ iter.last.tag = "Some"
    /\ iter' = [kind |-> "Resources", item |-> iter.last, index |-> 0, last |-> Fresh,
                hint |-> Built(Resources_size_hint(fork.val, iter.last.val, 0), checks),
                before |-> Fresh]
    /\ UNCHANGED <<data, version, file, orig, rnd, target, call, fork, cursor, arr>>

\* Resources::next, then size_hint; the caller may go on calling after a None
ResourcesNext(checks) ==
    /\ iter.kind = "Resources"
    /\ iter.last.tag \in {"Fresh", "Some", "None"}
    /\ LET n == Resources_next(fork.val, iter.item.val, iter.index)
       IN  iter' = [iter EXCEPT !.index = n.index, !.last = n.item,
                                !.hint = Built(Resources_size_hint(fork.val, iter.item.val,
                                                                   n.index), checks),
                                !.before = iter.hint]
    /\ UNCHANGED <<data, version, file, orig, rnd, target, call, fork, cursor, arr>>

NextFork ==
    \/ New
    \/ \E rsrc_type \in QueryTypes, rsrc_id \in QueryIds : GetResource(rsrc_type, rsrc_id)
    \/ \E checks \in BOOLEAN : ResourceTypes(checks)
    \/ \E checks \in BOOLEAN : TypesNext(checks)
    \/ \E checks \in BOOLEAN : Resources(checks)
    \/ \E checks \in BOOLEAN : ResourcesNext(checks)

SpecFork == InitFork /\ [][NextFork]_vars

\* ------------------------------------------------------------------------
\* Properties.  B(k) is the byte of the caller's buffer at Rust offset k.

B(k) == data[k + 1]

Detected == version # "unset"

Parsed == file.tag # "unset"

\* The ASCII bytes 'mBIN' at offsets 102..106.
Signed == << B(102), B(103), B(104), B(105) >> = << 109, 66, 73, 78 >>

\* The big-endian u16 at offset k.
Be16At(k) == B(k) * 256 + B(k + 1)

\* crc16(bytes[0..124]) equals the big-endian u16 at bytes[124..126].
CrcMatches == calc_crc(SubSeq(data, 1, 124)) = Be16At(124)

\* The big-endian u32 at offset k is <= 0x007FFFFF: its top byte is 0 and
\* the next one at most 0x7F.
ForkLenInRange(k) == B(k) = 0 /\ B(k + 1) <= 127

\* C1: detect returns Version III for every buffer of at least 128 bytes
\* whose byte 0 is zero and whose bytes 102..106 are 'mBIN', whatever bytes
\* 74 and 82, the stored CRC and every other byte are.
C1_SignedIsIII ==
    (Detected /\ Len(data) >= 128 /\ B(0) = 0 /\ Signed) => version = "III"

\* A signed buffer with bytes 74 and 82 nonzero and a wrong stored CRC has
\* been reported as version III.
C1_Witness ==
    /\ version = "III"
    /\ Len(data) >= 128 /\ B(0) = 0 /\ Signed
    /\ B(74) # 0 /\ B(82) # 0
    /\ ~CrcMatches

\* C2: detect returns no version for every buffer shorter than 128 bytes and
\* for every buffer whose first byte is nonzero, whatever else it holds.
C2_ShortOrNonzeroRejected ==
    (Detected /\ (Len(data) < 128 \/ B(0) # 0)) => version = "None"

\* A buffer with a nonzero first byte, the signature and a matching CRC has
\* been reported as no version.
C2_Witness ==
    /\ version = "None"
    /\ Len(data) >= 128 /\ B(0) # 0
    /\ Signed
    /\ CrcMatches

\* The ordered decision of C3 for an unsigned header.
C3_Decision ==
    IF B(74) # 0 \/ B(82) # 0 THEN "None"
    ELSE IF CrcMatches THEN "II"
    ELSE IF /\ \A k \in 101 .. 125 : B(k) = 0
            /\ B(2) >= 1 /\ B(2) <= 63
            /\ ForkLenInRange(83)
            /\ ForkLenInRange(87)
         THEN "I"
    ELSE "None"

C4_BadVersionIffUndetected ==
    Parsed =>
        /\ (file = Err("BadVersion")) <=> (version = "None")
        /\ file.tag = "Ok" => file.val.version = version

\* A buffer detected as version I has been parsed, and the MacBinary says I.
C4_Witness == file.tag = "Ok" /\ version = "I" /\ file.val.version = "I"

\* A u32 below 2^31 as a natural number.
Nat32(v) == v.hi * 65536 + v.lo

\* The fork layout of C5 for a header h: S, D, P and R.
LayoutS(h) == RoundUp128(h.secondary_header_len)

LayoutD(h) == Nat32(h.data_fork_len)

LayoutP(h) == RoundUp128(LayoutD(h)) - LayoutD(h)

LayoutR(h) == Nat32(h.rsrc_fork_len)

LayoutEnd(h) == 128 + LayoutS(h) + LayoutD(h) + LayoutP(h) + LayoutR(h)

\* The borrowed slice input[from .. to]: its place and its bytes.
InputRange(from, to) == [base |-> from, data |-> SubSeq(data, from + 1, to)]

\* C5: when parse succeeds, the data fork is input[128+S .. 128+S+D] and the
\* resource fork is input[128+S+D+P .. 128+S+D+P+R], both ranges of the input
\* buffer, and the bytes after the resource fork do not affect the result.
C5_ForksAreInputRanges ==
    file.tag = "Ok" =>
        LET h == file.val.header
            from == 128 + LayoutS(h)
        IN  /\ LayoutEnd(h) <= Len(data)
            /\ file.val.data_fork = InputRange(from, from + LayoutD(h))
            /\ file.val.rsrc_fork =
                   InputRange(from + LayoutD(h) + LayoutP(h), LayoutEnd(h))
            /\ parse(SubSeq(data, 1, LayoutEnd(h))) = file

\* A file with a secondary header, a data fork that needs padding, a resource
\* fork and bytes after it has been parsed.
C5_Witness ==
    /\ file.tag = "Ok"
    /\ LayoutS(file.val.header) = 128
    /\ LayoutD(file.val.header) = 1
    /\ LayoutR(file.val.header) = 2
    /\ Len(data) > LayoutEnd(file.val.header)

\* The premise of C6: a detected version, a valid filename length and, for
\* II and III, a matching CRC.
HeaderAccepted ==
    /\ Parsed
    /\ version # "None"
    /\ B(1) >= 1 /\ B(1) <= 31
    /\ version \in {"II", "III"} => CrcMatches

\* The buffer is shorter than 128 + S + D + P + R, the lengths read from the
\* header at offsets 120, 83 and 87.  A fork length of 2^24 or more is longer
\* than every buffer here.
ShorterThanDeclared ==
    \/ B(83) > 0
    \/ B(87) > 0
    \/ LET d == B(84) * 65536 + Be16At(85)
           r == B(88) * 65536 + Be16At(89)
       IN  Len(data) < 128 + RoundUp128(Be16At(120)) + RoundUp128(d) + r

\* No fork shorter than the header declares is returned.
ForksComplete ==
    file.tag = "Ok" =>
        /\ Len(file.val.data_fork.data) = LayoutD(file.val.header)
        /\ Len(file.val.rsrc_fork.data) = LayoutR(file.val.header)

\* C6 as stated: for every buffer with a detected version, a valid filename
\* length and (II/III) a matching CRC that is shorter than 128 + S + D + P + R,
\* parse fails with BadEof; and no short fork is ever returned.
C6_Original ==
    /\ (HeaderAccepted /\ ShorterThanDeclared) => file = Err("BadEof")
    /\ ForksComplete

\* Both round-ups are representable: secondary_header_len <= 0xFF80 and
\* data_fork_len <= 0xFFFFFF80.
RoundUpsFit ==
    /\ Be16At(120) <= 65408
    /\ ~(B(83) = 255 /\ B(84) = 255 /\ B(85) = 255 /\ B(86) > 128)

\* C6, amended: the same, for headers whose secondary header length and data
\* fork length round up to a multiple of 128 without overflow.
C6_ShortBufferIsBadEof ==
    /\ (HeaderAccepted /\ RoundUpsFit /\ ShorterThanDeclared) => file = Err("BadEof")
    /\ ForksComplete

\* Only the padding after a one-byte data fork is missing, and parse has
\* failed with BadEof.
C6_Witness ==
    /\ HeaderAccepted
    /\ file = Err("BadEof")
    /\ B(83) = 0 /\ B(84) = 0 /\ Be16At(85) = 1
    /\ Len(data) = 128 + RoundUp128(Be16At(120)) + 1

\* C7 as stated: for a buffer detected as II or III parse fails with
\* CrcMismatch when the CRC of the first 124 bytes differs from the u16 at
\* offset 124; for a buffer detected as I it never fails with CrcMismatch.
C7_Original ==
    Parsed =>
        /\ (version \in {"II", "III"} /\ ~CrcMatches) => file = Err("CrcMismatch")
        /\ version = "I" => file # Err("CrcMismatch")

\* C7, amended: the same, for II and III headers whose filename length byte
\* is in 1..=31 (Header::read checks it before the CRC is compared).
C7_CrcMismatchAfterHeader ==
    Parsed =>
        /\ (version \in {"II", "III"} /\ B(1) >= 1 /\ B(1) <= 31 /\ ~CrcMatches)
               => file = Err("CrcMismatch")
        /\ version = "I" => file # Err("CrcMismatch")

\* A signed header with a valid filename length and a wrong CRC has failed
\* with CrcMismatch.
C7_Witness ==
    /\ version = "III"
    /\ file = Err("CrcMismatch")
    /\ B(1) = 31
    /\ ~CrcMatches

\* C9: for every buffer with a detected version, parse reads the filename
\* length from the byte after the leading zero byte and fails with BadValue
\* when it is outside 1..=31; on success the filename is that many bytes from
\* the start of the 63-byte field after the length byte.
C9_FilenameLength ==
    (Parsed /\ version # "None") =>
        /\ ~(B(1) >= 1 /\ B(1) <= 31) => file = Err("BadValue")
        /\ file.tag = "Ok" => file.val.header.filename = InputRange(2, 2 + B(1))

\* A header detected as version I, its byte at offset 2 being in 1..=63, has
\* failed with BadValue for its filename length of 32.
C9_Witness ==
    /\ version = "I"
    /\ B(1) = 32
    /\ file = Err("BadValue")

\* The buffer was decoded as version II or III, one byte of it was then
\* changed, and the changed buffer has been parsed.
DamagedAndParsed == orig.tag = "some" /\ Parsed /\ orig.version \in {"II", "III"}

\* C8 as stated: for a version-II/III file that parses successfully,
\* corrupting any byte within the first 124 header bytes makes parse fail with
\* CrcMismatch; corrupting a byte at header offsets 126..128 or in the payload
\* does not cause CrcMismatch.
C8_Original ==
    DamagedAndParsed =>
        /\ orig.at < 124 => file = Err("CrcMismatch")
        /\ orig.at >= 126 => file # Err("CrcMismatch")

\* C8, amended: for a version-III file, and for the first 124 bytes other than
\* byte 0, the signature bytes 102..106 and a filename length byte (offset 1)
\* changed to a value outside 1..=31; the part about the bytes after the CRC
\* field stands for II and III.
C8_CorruptionIsCrcMismatch ==
    DamagedAndParsed =>
        /\ ( /\ orig.version = "III"
             /\ orig.at >= 1 /\ orig.at < 124
             /\ ~(orig.at >= 102 /\ orig.at < 106)
             /\ orig.at = 1 => (B(1) >= 1 /\ B(1) <= 31) )
               => file = Err("CrcMismatch")
        /\ orig.at >= 126 => file # Err("CrcMismatch")

\* The filename length byte of a version-III file was changed to another
\* value in 1..=31, and parse has failed with CrcMismatch.
C8_Witness ==
    /\ DamagedAndParsed
    /\ orig.version = "III"
    /\ orig.at = 1
    /\ file = Err("CrcMismatch")

\* The multiples of 128 a u16 holds.
Multiples16 == { m \in 0 .. U16_MAX : m % 128 = 0 }

\* The multiples of 128 a u16 holds that are >= v.
Candidates16(v) == { m \in Multiples16 : m >= v }

\* The multiples of 128 a u32 holds that are >= v and below v + 2^16: the
\* smallest multiple >= v is one of them if a u32 holds any.
Candidates32(v) ==
    { m \in { U32(h, l) : h \in {v.hi, v.hi + 1} \cap (0 .. U16_MAX), l \in Multiples16 } :
        U32Leq(v, m) }

Rounded == rnd.ty # "none" /\ rnd.result.tag # "unset"

\* C10: for every u16 and every u32 value the function returns the smallest
\* multiple of 128 that is >= the value when the type holds one (0 -> 0,
\* 3 -> 128, 128 -> 128, 129 -> 256), and Overflow, never a wrapped value,
\* when it does not.
C10_SmallestMultipleOrOverflow ==
    /\ (Rounded /\ rnd.ty = "u16") =>
           LET c == Candidates16(rnd.value)
           IN  /\ c = {} => rnd.result = Err("Overflow")
               /\ c # {} =>
                      /\ rnd.result.tag = "Ok"
                      /\ rnd.result.val \in c
                      /\ \A m \in c : rnd.result.val <= m
               /\ rnd.value = 0 => rnd.result = Ok(0)
               /\ rnd.value = 3 => rnd.result = Ok(128)
               /\ rnd.value = 128 => rnd.result = Ok(128)
               /\ rnd.value = 129 => rnd.result = Ok(256)
    /\ (Rounded /\ rnd.ty = "u32") =>
           LET c == Candidates32(rnd.value)
           IN  /\ c = {} => rnd.result = Err("Overflow")
               /\ c # {} =>
                      /\ rnd.result.tag = "Ok"
                      /\ rnd.result.val \in c
                      /\ \A m \in c : U32Leq(rnd.result.val, m)
               /\ rnd.value = U32(0, 0) => rnd.result = Ok(U32(0, 0))
               /\ rnd.value = U32(0, 3) => rnd.result = Ok(U32(0, 128))
               /\ rnd.value = U32(0, 128) => rnd.result = Ok(U32(0, 128))
               /\ rnd.value = U32(0, 129) => rnd.result = Ok(U32(0, 256))

\* u32::MAX - 126, just past the last multiple of 128 a u32 holds, has been
\* answered with Overflow.
C10_Witness ==
    /\ rnd.ty = "u32"
    /\ rnd.value = U32(U16_MAX, U16_MAX - 126)
    /\ rnd.result = Err("Overflow")

\* MAX - v for the value that was rounded, when it is below 2^16 (and 2^16
\* otherwise): how far the value is from the maximum of its type.
BelowMax ==
    IF rnd.ty = "u16" THEN U16_MAX - rnd.value
    ELSE IF rnd.value.hi = U16_MAX THEN U16_MAX - rnd.value.lo
    ELSE U16_LIMIT

\* C11 as stated: every value v with MAX - v < 128 is answered with
\* Overflow, for u16 and for u32.
C11_Original == (Rounded /\ BelowMax < 128) => rnd.result = Err("Overflow")

\* C11: every value v with MAX - v < 127, that is every value above the
\* last multiple of 128 the type holds, is answered with Overflow; the value
\* MAX - 127 is that last multiple and is returned unchanged.
C11_NearMaxOverflows ==
    /\ (Rounded /\ BelowMax < 127) => rnd.result = Err("Overflow")
    /\ (Rounded /\ BelowMax = 127) => rnd.result = Ok(rnd.value)

\* u32::MAX - 3, the value of test_next_multiple_overflow, has been answered
\* with Overflow.
C11_Witness ==
    /\ rnd.ty = "u32"
    /\ rnd.value = U32(U16_MAX, U16_MAX - 3)
    /\ rnd.result = Err("Overflow")

\* offset_length has been called on the scope.
Carved == call.op = "offset_length"

\* C19: offset_length(offset, 0) returns Ok with an empty scope for every
\* scope and every offset, also an offset greater than the scope length; it
\* never fails and never panics.
C19_ZeroLengthNeverFails ==
    (Carved /\ call.length = 0) =>
        /\ call.result.tag = "Ok"
        /\ call.result.val.data = <<>>

\* offset + length, as numbers, exceeds the scope length.
PastTheEnd ==
    \/ call.offset < 0
    \/ call.length < 0
    \/ call.offset + call.length > Len(target.data)

\* C20 as stated: for every length > 0, offset_length fails with BadEof
\* whenever offset + length exceeds the scope length.
C20_Original ==
    (Carved /\ call.length # 0 /\ PastTheEnd) => call.result = Err("BadEof")

\* C20: for every length > 0, offset_length fails whenever offset + length
\* exceeds the scope length: with BadEof when the offset is below the scope
\* length and with BadOffset when the offset is at or past it.
C20_PastTheEndFails ==
    (Carved /\ call.length # 0 /\ PastTheEnd) =>
        call.result = IF UsizeLt(call.offset, Len(target.data)) THEN Err("BadEof")
                      ELSE Err("BadOffset")

\* Two bytes were asked for at offset 2 of a three-byte scope and the call
\* failed with BadEof.
C20_Witness ==
    /\ Carved
    /\ Len(target.data) = 3
    /\ call.offset = 2
    /\ call.length = 2
    /\ call.result = Err("BadEof")

\* ------------------------------------------------------------------------
\* Properties of resource forks.  The fork's bytes are read here straight
\* from the caller's buffer, by position.

\* The big-endian u32 and u16 at Rust offset k of the buffer.
RawBe32(k) == U32FromBe(data[k + 1], data[k + 2], data[k + 3], data[k + 4])

RawBe16(k) == data[k + 1] * U8_LIMIT + data[k + 2]

\* The bytes at Rust offsets from .. from+n-1 of the buffer.
RawBytes(from, n) == [i \in 1 .. n |-> data[from + i]]

\* Whether the region of len bytes at off lies inside the buffer; a region
\* of no bytes does wherever it is.
Contained(off, len) ==
    \/ len = U32(0, 0)
    \/ off.hi = 0 /\ len.hi = 0 /\ off.lo + len.lo <= Len(data)

\* Whether a non-empty region starts at or past the end of the buffer.
StartsPastEnd(off, len) == len # U32(0, 0) /\ (off.hi # 0 \/ off.lo >= Len(data))

\* Whether a scope the fork holds is a range of the buffer's bytes: it has
\* no bytes, or it lies inside the buffer and holds the bytes found there.
InsideInput(s) ==
    \/ s.data = <<>>
    \/ /\ s.base + Len(s.data) <= Len(data)
       /\ s.data = RawBytes(s.base, Len(s.data))

Constructed == fork # NoFork

\* C12: ResourceFork::new reads the header as data offset, map offset, data
\* length, map length; it returns an error, and neither panics nor yields a
\* region past the input, when the input has fewer than 16 bytes or when the
\* data region or the map region is not contained in the input; a region of
\* no bytes is accepted even at an offset past the end of the input.
C12_NewChecksRegions ==
    Constructed =>
        /\ fork.tag \in {"Ok", "Err"}
        /\ Len(data) < 16 => fork.tag = "Err"
        /\ Len(data) >= 16 =>
               LET data_offset == RawBe32(0)
                   map_offset == RawBe32(4)
                   data_len == RawBe32(8)
                   map_len == RawBe32(12)
               IN  /\ ~Contained(data_offset, data_len) => fork.tag = "Err"
                   /\ ~Contained(map_offset, map_len) => fork.tag = "Err"
                   /\ fork = Err("BadOffset") =>
                          \/ StartsPastEnd(data_offset, data_len)
                          \/ StartsPastEnd(map_offset, map_len)
                   /\ fork.tag = "Ok" =>
                          /\ Len(fork.val.rsrc_data.data) = data_len.lo
                          /\ data_len.lo > 0 => fork.val.rsrc_data.base = data_offset.lo
                          /\ InsideInput(fork.val.rsrc_data)
                          /\ InsideInput(fork.val.map.type_list.scope)
                          /\ InsideInput(fork.val.map.type_list.list.scope)
                          /\ InsideInput(fork.val.map.name_list_scope)
                          /\ map_offset.lo + map_len.lo <= Len(data)
                          /\ fork.val.map.type_list.scope.base
                                 + Len(fork.val.map.type_list.scope.data)
                                 <= map_offset.lo + map_len.lo

\* A fork whose data region has no bytes and lies at offset 0xFFFFFFFF has
\* been constructed.
C12_Witness ==
    /\ fork.tag = "Ok"
    /\ RawBe32(0) = U32_MAX
    /\ RawBe32(8) = U32(0, 0)
    /\ fork.val.rsrc_data.data = <<>>

\* The fork's layout by position.  MapAt is where the map starts, TypesAt
\* where the type list (its count field) starts, DataAt where the data
\* region starts.
MapAt == RawBe32(4).lo

TypesAt == MapAt + RawBe16(MapAt + 24)

NamesAt == MapAt + RawBe16(MapAt + 26)

DataAt == RawBe32(0).lo

\* The stored count of types, and type entry i (from 0) as stored: its
\* FourCC, its stored resource count and its reference list offset.
StoredTypes == RawBe16(TypesAt)

TypeEntryAt(i) == TypesAt + 2 + 8 * i

StoredType(i) == RawBe32(TypeEntryAt(i))

StoredCount(i) == RawBe16(TypeEntryAt(i) + 4)

StoredRefOffset(i) == RawBe16(TypeEntryAt(i) + 6)

\* Reference entry k (from 0) of type entry i, as stored.
RefEntryAt(i, k) == TypesAt + StoredRefOffset(i) + 12 * k

StoredId(i, k) == AsI16(RawBe16(RefEntryAt(i, k)))

StoredNameOffset(i, k) == AsI16(RawBe16(RefEntryAt(i, k) + 2))

StoredAttributes(i, k) == data[RefEntryAt(i, k) + 4 + 1]

StoredDataOffset(i, k) ==
    data[RefEntryAt(i, k) + 5 + 1] * U16_LIMIT + RawBe16(RefEntryAt(i, k) + 6)

\* The first type entry with the FourCC t, and the first reference entry of
\* type entry i with the id, when there is one.
HasType(t) == \E i \in 0 .. StoredTypes : StoredType(i) = t

FirstType(t) ==
    CHOOSE i \in 0 .. StoredTypes :
        StoredType(i) = t /\ \A j \in 0 .. i - 1 : StoredType(j) # t

HasId(i, id) == \E k \in 0 .. StoredCount(i) : StoredId(i, k) = id

FirstId(i, id) ==
    CHOOSE k \in 0 .. StoredCount(i) :
        StoredId(i, k) = id /\ \A j \in 0 .. k - 1 : StoredId(i, j) # id

Asked == call.op = "get_resource"

Found == Asked /\ call.result.tag = "Some"

\* C13: when get_resource(type, id) returns a resource, its data is exactly
\* the L bytes after the big-endian u32 length L found at data_offset in the
\* data region, data_offset being the 24-bit offset of the first reference
\* entry with that id in the reference list of the first type entry with
\* that FourCC; the id and attributes returned are that entry's.
C13_ResourceIsStoredData ==
    Found =>
        /\ HasType(call.rsrc_type)
        /\ LET i == FirstType(call.rsrc_type)
           IN  /\ HasId(i, call.rsrc_id)
               /\ LET k == FirstId(i, call.rsrc_id)
                      at == StoredDataOffset(i, k)
                      L == RawBe32(DataAt + at)
                  IN  /\ L.hi = 0
                      /\ at + 4 + L.lo <= RawBe32(8).lo
                      /\ call.result.val.data.data = RawBytes(DataAt + at + 4, L.lo)
                      /\ call.result.val.data.base = at + 4
                      /\ call.result.val.id = StoredId(i, k)
                      /\ call.result.val.id = call.rsrc_id
                      /\ call.result.val.attributes = StoredAttributes(i, k)

\* A resource has been returned for an id that two entries of the reference
\* list carry, the first of them with data of two bytes.
C13_Witness ==
    /\ Found
    /\ LET i == FirstType(call.rsrc_type)
       IN  /\ StoredCount(i) >= 1
           /\ StoredId(i, 0) = call.rsrc_id
           /\ StoredId(i, 1) = call.rsrc_id
    /\ Len(call.result.val.data.data) = 2

\* Where the map ends, and how many bytes the data region has.
MapEnd == MapAt + RawBe32(12).lo

DataLen == RawBe32(8).lo

\* Whether the reference list of type entry i, with its stored count plus
\* one entries of 12 bytes, lies inside the map.
RefListFits(i) == TypesAt + StoredRefOffset(i) + 12 * (StoredCount(i) + 1) <= MapEnd

\* Whether the data of reference entry k of type entry i, length prefix and
\* bytes, lies inside the data region.
DataFits(i, k) ==
    LET at == StoredDataOffset(i, k)
    IN  /\ at + 4 <= DataLen
        /\ RawBe32(DataAt + at).hi = 0
        /\ at + 4 + RawBe32(DataAt + at).lo <= DataLen

\* What get_resource has no resource for: a type or an id the fork lacks, a
\* reference list that runs past the map, data that runs past the data
\* region.
Malformed(t, id) ==
    \/ ~HasType(t)
    \/ /\ HasType(t)
       /\ \/ ~RefListFits(FirstType(t))
          \/ /\ RefListFits(FirstType(t))
             /\ \/ ~HasId(FirstType(t), id)
                \/ /\ HasId(FirstType(t), id)
                   /\ ~DataFits(FirstType(t), FirstId(FirstType(t), id))

Iterating == iter.kind # "none"

\* A slice handed out lies inside the fork's bytes: s is the slice and from
\* the position its base counts from.
HandedOutInside(s, from) ==
    \/ s.data = <<>>
    \/ /\ from + s.base + Len(s.data) <= Len(data)
       /\ s.data = RawBytes(from + s.base, Len(s.data))

ResourceInside(r) ==
    /\ HandedOutInside(r.data, DataAt)
    /\ r.name.tag = "Some" => HandedOutInside(r.name.val, 0)

\* C14: on a constructed fork, whatever its bytes, get_resource and the two
\* iterations neither panic nor read outside the fork's bytes; a missing
\* type, a missing id, a reference list that runs past the map, a data
\* offset past the data region and a length prefix larger than the data
\* left each make get_resource return no resource.
C14_LookupsNeverFail ==
    /\ Asked =>
           /\ call.result.tag \in {"Some", "None"}
           /\ Malformed(call.rsrc_type, call.rsrc_id) => call.result = None
           /\ call.result.tag = "Some" => ResourceInside(call.result.val)
    /\ Iterating =>
           /\ iter.last.tag \in {"Fresh", "Some", "None"}
           /\ iter.hint.tag = "Ok"
           /\ (iter.kind = "Resources" /\ iter.last.tag = "Some") =>
                  ResourceInside(iter.last.val)

\* get_resource has found the entry asked for, whose length prefix says
\* 0xFFFFFFFF bytes, and has returned no resource.
C14_Witness ==
    /\ Asked
    /\ HasType(call.rsrc_type)
    /\ RefListFits(FirstType(call.rsrc_type))
    /\ HasId(FirstType(call.rsrc_type), call.rsrc_id)
    /\ LET at == StoredDataOffset(FirstType(call.rsrc_type),
                                  FirstId(FirstType(call.rsrc_type), call.rsrc_id))
       IN  at + 4 <= DataLen /\ RawBe32(DataAt + at) = U32_MAX
    /\ call.result = None

\* The number of items an iterator at the given index will still yield: the
\* calls of next that return an item before one returns None.
RECURSIVE TypesLeft(_, _)
TypesLeft(self, type_index) ==
    LET n == ResourceTypes_next(self, type_index)
    IN  IF n.item.tag = "Some" THEN 1 + TypesLeft(self, n.index) ELSE 0

RECURSIVE ResourcesLeft(_, _, _)
ResourcesLeft(self, item, rsrc_index) ==
    LET n == Resources_next(self, item, rsrc_index)
    IN  IF n.item.tag = "Some" THEN 1 + ResourcesLeft(self, item, n.index) ELSE 0

ItemsLeft ==
    IF iter.kind = "ResourceTypes" THEN TypesLeft(fork.val, iter.index)
    ELSE ResourcesLeft(fork.val, iter.item.val, iter.index)

\* C15: for the ResourceTypes iterator and for the Resources iterator of any
\* type entry, after any number of next calls size_hint reports (n, Some(n))
\* for n the number of items the iterator will still yield; the reported
\* value never increases between calls and is exactly zero once next has
\* returned None.
C15_SizeHintIsItemsLeft ==
    Iterating =>
        /\ iter.hint = Ok([lower |-> ItemsLeft, upper |-> Some(ItemsLeft)])
        /\ (iter.before # Fresh /\ iter.before.tag = "Ok" /\ iter.hint.tag = "Ok") =>
               iter.hint.val.lower <= iter.before.val.lower
        /\ iter.last = None => iter.hint = Ok([lower |-> 0, upper |-> Some(0)])

\* The type list's count field lies inside a map that new has carved: the
\* input has its header, both regions are inside it, and the map has its 28
\* fixed bytes and two more at the type list offset.
TypeCountRead ==
    /\ Len(data) >= 16
    /\ Contained(RawBe32(0), RawBe32(8))
    /\ Contained(RawBe32(4), RawBe32(12))
    /\ RawBe32(12).lo >= 28
    /\ TypesAt + 2 <= MapEnd

\* The type entry the ResourceTypes iterator has just yielded, and its
\* place in the type list.
TypeYielded == iter.kind = "ResourceTypes" /\ iter.last.tag = "Some"

\* C16: the number of type entries is the stored u16 count plus one and each
\* type entry's resource count is its stored u16 count plus one, both
\* overflow-checked: a stored 0xFFFF is rejected with Overflow in both
\* places and never becomes a wrapped count of 0.
C16_CountsAreStoredPlusOne ==
    /\ (Constructed /\ TypeCountRead /\ StoredTypes = U16_MAX) => fork = Err("Overflow")
    /\ (Constructed /\ fork.tag = "Ok") =>
           ReadArray_len(fork.val.map.type_list.list) = StoredTypes + 1
    /\ TypeYielded =>
           /\ StoredCount(iter.index - 1) # U16_MAX
           /\ iter.last.val.num_rsrc = StoredCount(iter.index - 1) + 1

\* The reference entry get_resource has found, by position: its type entry
\* and its place in that entry's reference list.
FoundType == FirstType(call.rsrc_type)

FoundEntry == FirstId(FoundType, call.rsrc_id)

\* Where the name of the entry found starts (its length byte), for a name
\* offset that is not negative.
NameAt == NamesAt + StoredNameOffset(FoundType, FoundEntry)

\* Whether that name, length byte and bytes, lies inside the map.
NameFits == NameAt + 1 <= MapEnd /\ NameAt + 1 + data[NameAt + 1] <= MapEnd

\* C17: a resource has no name when its reference entry's i16 name offset is
\* negative; when it is not, the name is exactly the n bytes after the u8
\* length n at that offset of the name list; the name is looked up apart
\* from the data, so a name offset or length that runs past the map gives a
\* resource without a name and not an absent resource.
C17_NameIsOptional ==
    /\ Found =>
           /\ StoredNameOffset(FoundType, FoundEntry) < 0 => call.result.val.name = None
           /\ (StoredNameOffset(FoundType, FoundEntry) >= 0 /\ NameFits) =>
                  /\ call.result.val.name.tag = "Some"
                  /\ call.result.val.name.val.data = RawBytes(NameAt + 1, data[NameAt + 1])
                  /\ call.result.val.name.val.base = NameAt + 1
           /\ (StoredNameOffset(FoundType, FoundEntry) >= 0 /\ ~NameFits) =>
                  call.result.val.name = None
    /\ (Asked /\ ~Malformed(call.rsrc_type, call.rsrc_id)) => Found

\* A resource has been returned without a name: its entry's name offset is
\* not negative and the length byte there asks for more bytes than the map
\* has.
C17_Witness ==
    /\ Found
    /\ StoredNameOffset(FoundType, FoundEntry) >= 0
    /\ NameAt + 1 <= MapEnd
    /\ ~NameFits
    /\ call.result.val.name = None

\* The Resources iterator is in use; RefsAt is where the reference list of
\* its type entry starts, counted from the start of the type list.
ListingResources == iter.kind = "Resources"

RefsAt == TypesAt + iter.item.val.reference_list_offset

\* C18: the type list is decoded at map start + type list offset and the
\* name list at map start + name list offset, wherever the cursor stands
\* after the map's fixed fields; each type's reference list is decoded at
\* the start of the type list (its count field) + reference_list_offset,
\* with the type's corrected resource count as the number of 12-byte
\* entries; resource_types yields the type entries in stored order.
C18_ListsAtStoredOffsets ==
    /\ (Constructed /\ fork.tag = "Ok") =>
           /\ fork.val.map.type_list.scope.base = TypesAt
           /\ fork.val.map.type_list.scope.data = RawBytes(TypesAt, MapEnd - TypesAt)
           /\ fork.val.map.type_list.list.scope.base = TypesAt + 2
           /\ fork.val.map.name_list_scope.base = NamesAt
           /\ fork.val.map.name_list_scope.data =
                  IF NamesAt <= MapEnd THEN RawBytes(NamesAt, MapEnd - NamesAt) ELSE <<>>
    /\ TypeYielded =>
           /\ iter.last.val.rsrc_type = StoredType(iter.index - 1)
           /\ iter.last.val.reference_list_offset = StoredRefOffset(iter.index - 1)
    /\ ListingResources =>
           LET count == iter.item.val.num_rsrc
               refs == Resources_reference_list(fork.val, iter.item.val)
           IN  /\ refs.tag = "Some" <=> (count = 0 \/ RefsAt + 12 * count <= MapEnd)
               /\ refs.tag = "Some" =>
                      /\ ReadArray_len(refs.val.list) = count
                      /\ refs.val.list.scope.data = RawBytes(RefsAt, 12 * count)
                      /\ count > 0 => refs.val.list.scope.base = RefsAt
               /\ iter.last.tag = "Some" =>
                      /\ iter.last.val.id = AsI16(RawBe16(RefsAt + 12 * (iter.index - 1)))
                      /\ iter.last.val.attributes = data[RefsAt + 12 * (iter.index - 1) + 4 + 1]

\* The resources of the second type entry, whose reference list is at
\* offset 42 of the type list, are listed, and the first has been yielded.
C18_Witness ==
    /\ ListingResources
    /\ iter.item.val.rsrc_type = FourCCOf(TYPE_B)
    /\ iter.item.val.reference_list_offset = 42
    /\ iter.last.tag = "Some"
    /\ iter.last.val.attributes = 3

\* ------------------------------------------------------------------------
\* Properties of scopes, cursors and arrays

\* scope.offset(i).offset(j - i) and scope.offset_length(j, len - j) were
\* both called.
Composed == call.op = "compose"

\* The bytes from j on, based at base + j.
FromJ == [base |-> target.base + call.j, data |-> SubSeq(target.data, call.j + 1, Len(target.data))]

\* For i <= j <= len the two ways to the scope from j on succeed and agree.
C21_Composition == Composed => (call.chained = Ok(FromJ) /\ call.carved = Ok(FromJ))

\* One call of offset was made.
OffsetCalled == call.op = "offset"

\* offset never fails, and yields an empty scope past the scope's length.
C21_OffsetNeverFails ==
    OffsetCalled =>
        /\ call.result.tag = "Ok"
        /\ UsizeLt(Len(target.data), call.offset) => call.result.val.data = <<>>

\* C21: for any scope S and 0 <= i <= j <= S.len(), S.offset(i).offset(j-i)
\* and S.offset_length(j, S.len()-j) both succeed and yield the bytes
\* S.bytes[j..] with the base S.base + j; offset itself never fails and
\* yields an empty scope when its argument exceeds the scope length.
C21_OffsetComposes == C21_Composition /\ C21_OffsetNeverFails

\* A read was called on the cursor.
ReadCalled == call.op \notin {"none", "check_avail", "offset", "offset_length", "compose"}

\* The sizes of the binary types, as the format has them.
BytesOf(T) ==
    CASE T \in {"U8", "I8", "read_u8", "read_i8"} -> 1
      [] T \in {"U16Be", "I16Be", "read_u16be", "read_i16be"} -> 2
      [] T = "U24Be" -> 3
      [] T \in {"U32Be", "I32Be", "read_u32be", "read_i32be"} -> 4
      [] T \in {"I64Be", "read_u64be", "read_i64be"} -> 8
      [] T = "(U8, U16Be)" -> 3
      [] T = "(I16Be, I16Be, U8)" -> 5

\* The bytes a successful read took: the size of the type, the length asked
\* of read_scope and read_slice, the bytes of the array handed out.
BytesRead ==
    CASE call.op \in {"read_scope", "read_slice"} -> call.arg
      [] call.op = "read_array" -> Len(call.result.val.scope.data)
      [] OTHER -> BytesOf(call.arg)

\* C22: after any sequence of reads on a cursor the position is between 0
\* and the scope length; a successful read of n bytes moves it forward by
\* exactly n, a failed read leaves it where it was, and none moves it back;
\* check_avail(n) succeeds only if position + n, without wrap-around, is at
\* most the scope length.
C22_CursorMovesForward ==
    /\ cursor # NoCursor =>
           /\ 0 <= cursor.offset
           /\ cursor.offset <= Len(cursor.scope.data)
    /\ ReadCalled =>
           /\ cursor.scope = call.before.scope
           /\ cursor.offset >= call.before.offset
           /\ call.result.tag = "Ok" => cursor.offset = call.before.offset + BytesRead
           /\ call.result.tag = "Err" => cursor = call.before
    /\ (call.op = "check_avail" /\ call.result.val) =>
           /\ call.arg >= 0
           /\ call.before.offset + call.arg <= Len(call.before.scope.data)

\* A read of eight bytes failed at position 7 of a nine-byte scope, which
\* earlier reads had reached, and the cursor stayed at 7.
C22_Witness ==
    /\ call.op = "read_i64be"
    /\ call.result = Err("BadEof")
    /\ call.before.offset = 7
    /\ cursor.offset = 7
    /\ Len(cursor.scope.data) = 9

\* A checked read of a binary type was called: read::<T>() or a method.
TypedRead == call.op = "read" \/ call.op \in ReadMethods

\* The bytes of an unsigned number of n bytes, most significant first.
RECURSIVE BeBytes(_, _)
BeBytes(v, n) == IF n = 0 THEN <<>> ELSE Append(BeBytes(v \div 256, n - 1), v % 256)

\* The bytes of a value of a binary type, most significant first and, for a
\* signed type, in two's complement.
ToBeBytes(T, v) ==
    CASE T \in {"U8", "I8", "read_u8", "read_i8"} -> BeBytes(v % 256, 1)
      [] T \in {"U16Be", "I16Be", "read_u16be", "read_i16be"} -> BeBytes(v % 65536, 2)
      [] T = "U24Be" -> BeBytes(v.hi, 1) \o BeBytes(v.lo, 2)
      [] T \in {"U32Be", "read_u32be"} -> BeBytes(v.hi, 2) \o BeBytes(v.lo, 2)
      [] T \in {"I32Be", "read_i32be"} -> BeBytes((v \div 65536) % 65536, 2) \o BeBytes(v % 65536, 2)
      [] T = "read_u64be" ->
             BeBytes(v.hi.hi, 2) \o BeBytes(v.hi.lo, 2) \o BeBytes(v.lo.hi, 2) \o BeBytes(v.lo.lo, 2)
      [] T \in {"I64Be", "read_i64be"} ->
             BeBytes((v.hi \div 65536) % 65536, 2) \o BeBytes(v.hi % 65536, 2)
                 \o BeBytes(v.lo.hi, 2) \o BeBytes(v.lo.lo, 2)

\* The members of the tuple types, as they are written.
MembersOf(T) == IF T = "(U8, U16Be)" THEN <<"U8", "U16Be">> ELSE <<"I16Be", "I16Be", "U8">>

\* The bytes of the members of a tuple value, one member after the other.
RECURSIVE TupleBeBytes(_, _)
TupleBeBytes(members, v) ==
    IF members = <<>> THEN <<>>
    ELSE ToBeBytes(Head(members), Head(v)) \o TupleBeBytes(Tail(members), Tail(v))

\* The value is in the range of its type.
InRange(T, v) ==
    CASE T \in {"U8", "read_u8"} -> v \in 0 .. 255
      [] T \in {"I8", "read_i8"} -> v \in -128 .. 127
      [] T \in {"U16Be", "read_u16be"} -> v \in 0 .. 65535
      [] T \in {"I16Be", "read_i16be"} -> v \in -32768 .. 32767
      [] T = "U24Be" -> v.hi \in 0 .. 255 /\ v.lo \in 0 .. 65535
      [] T \in {"U32Be", "read_u32be"} -> v.hi \in 0 .. 65535 /\ v.lo \in 0 .. 65535
      [] T \in {"I32Be", "read_i32be"} -> v \div 65536 \in -32768 .. 32767
      [] T = "read_u64be" -> v.hi.hi \in 0 .. 65535 /\ v.lo.hi \in 0 .. 65535
      [] T \in {"I64Be", "read_i64be"} -> v.hi \div 65536 \in -32768 .. 32767
      [] OTHER -> Len(v) = Len(MembersOf(T))

\* The bytes there were from the cursor on.
Remaining == SubSeq(call.before.scope.data, call.before.offset + 1, Len(call.before.scope.data))

\* C23: each checked read of a binary type fails with the end-of-data
\* error exactly when fewer than its SIZE bytes remain after the position,
\* and otherwise returns the value whose bytes, most significant first, are
\* the next SIZE bytes; a tuple type decodes its members in sequence, its
\* SIZE the sum of theirs.
C23_ReadsAreBigEndian ==
    TypedRead =>
        /\ call.result = Err("BadEof") <=> Len(Remaining) < BytesOf(call.arg)
        /\ call.result.tag \in {"Ok", "Err"}
        /\ call.result.tag = "Ok" =>
               /\ InRange(call.arg, call.result.val)
               /\ SubSeq(Remaining, 1, BytesOf(call.arg))
                      = IF call.arg \in TupleTypes
                        THEN TupleBeBytes(MembersOf(call.arg), call.result.val)
                        ELSE ToBeBytes(call.arg, call.result.val)

\* The bytes 1, 2, 3 were read as a U24Be and gave 0x010203.
C23_Witness ==
    /\ call.op = "read"
    /\ call.arg = "U24Be"
    /\ Remaining = <<1, 2, 3>>
    /\ call.result = Ok(U32(1, 2 * 256 + 3))

\* An array was handed out.
HasArray == arr.tag = "Ok"

\* The items whose bytes the array's scope holds.
ItemsHeld(a, T) == Len(a.scope.data) \div BytesOf(T)

\* C24: every ReadArray reachable through read_array, read_array_dep, empty
\* and any chain of subarray calls satisfies element count * stride <= the
\* length of its backing scope, so that every unchecked element read of
\* get_item, read_item and ReadArrayIter::next touches only bytes inside
\* the backing scope.
C24_ArrayWithinScope ==
    /\ HasArray => UsizeLeq(arr.val.length, ItemsHeld(arr.val, arr.type))
    /\ (HasArray /\ call.op \in {"get_item", "read_item"}) => call.result.tag # "Wild"
    /\ (HasArray /\ iter.kind \in {"iter", "iter_res"}) => iter.last.tag # "Wild"

\* The element of the array a at index k, as the iteration form kind hands
\* it out: iter yields the item, iter_res the result of the checked read.
ElementAt(kind, a, T, k) ==
    IF kind = "iter" THEN get_item(a, T, k) ELSE read_item(a, T, k)

NoItemsLeft == [lower |-> 0, upper |-> Some(0)]

HintOf(n) == [lower |-> n, upper |-> Some(n)]

\* C25: for an array of declared length n, get_item(i) and read_item(i) with
\* i >= n panic, check_index(i) is BadIndex exactly when i >= n, and iter and
\* iter_res yield exactly n elements, the k-th being the element decoded at
\* index k, and then None on every later call with a size hint of 0.
C25_IndexingAndIteration ==
    /\ (HasArray /\ call.op \in {"get_item", "read_item"}
           /\ ~UsizeLt(call.index, arr.val.length))
          => call.result = Panic
    /\ (HasArray /\ call.op = "check_index")
          => call.result = (IF UsizeLt(call.index, arr.val.length)
                            THEN Ok(TRUE) ELSE Err("BadIndex"))
    /\ (HasArray /\ iter.kind \in {"iter", "iter_res"} /\ iter.calls > 0)
          => IF iter.calls <= arr.val.length
             THEN /\ iter.last.tag = "Some"
                  /\ Ok(iter.last.val) = ElementAt(iter.kind, arr.val, arr.type, iter.calls - 1)
                  /\ iter.yielded = iter.calls
                  /\ iter.hint = HintOf(arr.val.length - iter.calls)
             ELSE /\ iter.last = None
                  /\ iter.yielded = arr.val.length
                  /\ iter.hint = NoItemsLeft

\* The array is a view cut by subarray(arr.at) from the array arr.of.
IsSubarray == HasArray /\ arr.cuts > 0

\* The indexes below n that the bytes at hand can reach.
IndexesBelow(n) == { k \in 0 .. MaxArrayLen : k < n }

\* C26: subarray(index) never fails; for index >= the array length (index =
\* length included) it returns a view of length 0 over an empty scope, and
\* for index < length a view of length (length - index) whose k-th element
\* is the original array's element at index + k.
C26_SubarrayIsTheTail ==
    IsSubarray =>
        IF UsizeLt(arr.at, arr.of.length)
        THEN /\ arr.val.length = arr.of.length - arr.at
             /\ \A k \in IndexesBelow(arr.val.length) :
                    /\ get_item(arr.val, arr.type, k) = get_item(arr.of, arr.type, arr.at + k)
                    /\ read_item(arr.val, arr.type, k) = read_item(arr.of, arr.type, arr.at + k)
        ELSE /\ arr.val.length = 0
             /\ arr.val.scope.data = <<>>

\* The last two of three bytes, cut off at index 1; the view's item 1 is
\* the original's item 2.
C26_Witness ==
    /\ IsSubarray
    /\ arr.type = "U8"
    /\ arr.of.length = 3
    /\ arr.at = 1
    /\ arr.val.length = 2
    /\ call.op = "get_item"
    /\ call.index = 1
    /\ call.result = get_item(arr.of, arr.type, 2)
    /\ call.result.tag = "Ok"

\* ------------------------------------------------------------------------
\* Properties of detect and parse taken together.

\* C27: parse returns CrcMismatch only for buffers detect classifies as
\* version III: for a buffer classified as version II detect has found
\* crc16(bytes[0..124]) equal to the stored CRC over the same 124 bytes, so
\* the comparison inside parse does not fail for version II.
C27_CrcMismatchOnlyForIII ==
    /\ version = "II" => CrcMatches
    /\ (Parsed /\ file = Err("CrcMismatch")) => version = "III"
    /\ (Parsed /\ version = "II" /\ file.tag = "Ok")
          => file.val.header.crc = calc_crc(SubSeq(data, 1, 124))

\* A version-II file with a data fork has parsed.
C27_Witness ==
    /\ version = "II"
    /\ Parsed
    /\ file.tag = "Ok"
    /\ Len(file.val.data_fork.data) = 128
    /\ CrcMatches

\* C28: for every buffer detect classifies as version I, the filename length
\* parse decodes from the header (the byte at header offset 1) is the byte
\* detect range-checked, and so lies in 1..=63.
C28_SameFilenameLengthByte ==
    version = "I" => (B(1) >= 1 /\ B(1) <= 63)

\* ------------------------------------------------------------------------
\* Properties of the iterators and get_resource taken together.

\* The reference list of the type entry whose resources are listed, and the
\* resource its entry k gives.
ListedRefs == Resources_reference_list(fork.val, iter.item.val)

ResourceOfEntry(k) ==
    read_resource(fork.val, get_item(ListedRefs.val.list, "ReferenceListItem", k).val)

\* What stops the listing at entry k: the reference list cannot be decoded,
\* or it can and the resource of its entry k cannot be read.
UnreadableAt(k) ==
    IF ListedRefs.tag # "Some" THEN TRUE
    ELSE k < ReadArray_len(ListedRefs.val.list) /\ ResourceOfEntry(k) = None

\* What the listing has yielded so far is the entries below its index, in
\* order; a None leaves it either past the last entry or at an entry that
\* cannot be read.
YieldedPrefix ==
    (ListingResources /\ iter.last # Fresh) =>
        /\ iter.last.tag \in {"Some", "None"}
        /\ iter.last.tag = "Some" =>
               /\ ListedRefs.tag = "Some"
               /\ iter.index >= 1
               /\ iter.index <= ReadArray_len(ListedRefs.val.list)
               /\ iter.last = ResourceOfEntry(iter.index - 1)
        /\ iter.last = None =>
               \/ UnreadableAt(iter.index)
               \/ iter.index = ReadArray_len(ListedRefs.val.list)
        /\ ListedRefs.tag = "Some" =>
               \A k \in 0 .. iter.index - 1 : ResourceOfEntry(k).tag = "Some"

\* A call of next either yields and moves on by one entry, or returns None
\* and stays; after a None every call returns None.
StaysAfterNone ==
    (ListingResources /\ ListingResources') =>
        /\ iter'.last.tag = "Some" => iter'.index = iter.index + 1
        /\ iter'.last.tag # "Some" => iter'.index = iter.index
        /\ iter.last = None => iter'.last = None

\* C29: the Resources iterator of a type entry yields a prefix of the
\* entry's reference list in index order: when the resource at the current
\* index cannot be read, or the reference list cannot be decoded, next
\* returns None without advancing, every later call returns None too, and
\* the entries after the unreadable one are never yielded.
C29_ResourcesYieldAPrefix == []YieldedPrefix /\ [][StaysAfterNone]_vars

\* The listing has stopped at an entry whose resource cannot be read, with
\* a readable entry after it.
C29_Witness ==
    /\ ListingResources
    /\ iter.last = None
    /\ ListedRefs.tag = "Some"
    /\ UnreadableAt(iter.index)
    /\ iter.index + 1 < ReadArray_len(ListedRefs.val.list)
    /\ ResourceOfEntry(iter.index + 1).tag = "Some"

\* Type entry i of the type list, and entry k of a reference list.
TypeEntry(i) == get_item(fork.val.map.type_list.list, "TypeListItem", i).val

RefEntryOf(refs, k) == get_item(refs.val.list, "ReferenceListItem", k).val

\* The listing has just yielded a resource r of the type entry t, t being
\* the first type entry with its FourCC and r's id not carried by an earlier
\* entry of t's reference list.
YieldedFirstOfItsKind ==
    /\ ListingResources
    /\ iter.last.tag = "Some"
    /\ TypeEntry(FirstType(iter.item.val.rsrc_type)) = iter.item.val
    /\ \A j \in 0 .. iter.index - 2 : RefEntryOf(ListedRefs, j).id # iter.last.val.id

\* C30: iteration and lookup agree: a resource r yielded by resources(t),
\* for t the first type entry with its FourCC and r's id the first
\* occurrence of that id in t's reference list, equals
\* get_resource(t.resource_type(), r.id()) in id, attributes, name and data;
\* and get_resource returns a resource for (type, id) only if the reference
\* list iterated for the first type entry with that FourCC has an entry
\* with that id.
C30_IterationAgreesWithLookup ==
    /\ YieldedFirstOfItsKind =>
           get_resource(fork.val, iter.item.val.rsrc_type, iter.last.val.id) = iter.last
    /\ Found =>
           /\ HasType(call.rsrc_type)
           /\ LET refs == Resources_reference_list(fork.val, TypeEntry(FoundType))
              IN  /\ refs.tag = "Some"
                  /\ \E k \in 0 .. ReadArray_len(refs.val.list) - 1 :
                         /\ RefEntryOf(refs, k).id = call.rsrc_id
                         /\ read_resource(fork.val, RefEntryOf(refs, k)) = call.result

\* The second resource of a type entry has been yielded, with data and with
\* an id that the entry before it does not carry.
C30_Witness ==
    /\ YieldedFirstOfItsKind
    /\ iter.index = 2
    /\ RefEntryOf(ListedRefs, 0).id # iter.last.val.id
    /\ Len(iter.last.val.data.data) > 0

====
